---- MODULE Spec2Model ----
(***************************************************************************)
(* Verification model of the Linux sandbox lifecycle of minion:           *)
(* the uid allocator, sandbox creation, kill and drop, the zygote's        *)
(* request handling, the wait future and the watchdog.                     *)
(*                                                                         *)
(* Three specifications are defined over the variables of the sandbox:     *)
(*   SpecUid  - every sandbox of the backend goes through creation, kill   *)
(*              and drop; jobs and time are left out;                      *)
(*   Spec     - one sandbox in detail: its jobs, their wait futures, the   *)
(*              zygote's replies, the watchdog and the passing of time;    *)
(*   FairSpec - the sandbox, its jobs and its watchdog, with the watchdog  *)
(*              task scheduled by the runtime.                             *)
(* The other parts have variables and a specification of their own:        *)
(*   SpecWire   - the zygote socket packet by packet, with several         *)
(*                threads calling into one sandbox;                        *)
(*   SpecExec   - a forked child from the fork to execve;                  *)
(*   SpecTick   - the watchdog with a cpu_time_limit of any value;         *)
(*   SpecGroup  - the groups of one resource driver;                       *)
(*   SpecSelect - the selection of the resource driver by Driver::new;     *)
(*   SpecAlloc  - the uid allocator with any range;                        *)
(*   SpecStart  - start_zygote: the caller, the helper and the zygote;     *)
(*   SpecIpc    - one direction of a socket pair, datagram by datagram;    *)
(*   SpecStdio  - the stdio descriptors spawn makes for a child;           *)
(*   SpecPoll   - the event channel with the Heartbeats in it;             *)
(*   FairLoop   - the main loop of the zygote, scheduled fairly;           *)
(*   FairStart  - start_zygote with its three processes scheduled;         *)
(*   FairDiag   - the diagnostics of a child whose execve failed;          *)
(*   SpecEnter  - a process that joins a group of the rlimit driver;       *)
(*   SpecFds    - the descriptors of one Spawn, as sent and as awaited;    *)
(*   SpecAbort  - the zygote socket after a spawn that failed;             *)
(*   FairLock   - the mutexes of the group map, of the zygote cell and of  *)
(*                the zygote socket, with fair threads.                    *)
(***************************************************************************)
EXTENDS Integers, Sequences, FiniteSets

(***************************************************************************)
(* Bounds of the model.                                                    *)
(***************************************************************************)
\* number of sandboxes one backend creates
NSb == 2
\* UserIdBounds of the backend settings: half-open range [UidLow, UidHigh)
UidLow == 1
UidHigh == 3
\* jobs spawned in one sandbox
MaxJobs == 1
\* SandboxOptions.cpu_time_limit and real_time_limit, in watchdog periods
CpuLimit == 1
RealLimit == 2
\* the watchdog is followed until one period after the wall-clock limit
MaxTime == RealLimit + 1
\* threads that call into one sandbox, and exchanges they start
NThreads == 2
MaxExch == 3
\* extra descriptors one job may ask to inherit
MaxExtra == 2
\* the largest value of the integers that hold nanoseconds (u64::MAX)
U64Max == 7
\* group ids and the largest pids_max of a group
NGroups == 2
PidsMax == 2
\* driver kinds in the settings of a backend
MaxKinds == 2
\* the largest bound of a UserIdBounds range
AllocMax == 3
\* values sent over a socket pair are 0..MaxVal
MaxVal == 10
\* most descriptors passed by one send_fds
MaxFds == 9
\* calls the sending end makes on one socket pair
MaxCalls == 2
\* image paths have at most MaxDepth components
MaxDepth == 2
\* the nanoseconds of one second, 1_000_000_000 in the program, scaled like U64Max
NanosPerSec == 3

Sandboxes == 1..NSb
Threads == 1..NThreads
Jobs == 1..MaxJobs
\* exit statuses and signals a job may end with
ExitStatuses == {0, 255}
Signals == {9, 11}

(***************************************************************************)
(* Program constants.                                                      *)
(***************************************************************************)
\* ExitCode::SIGNALLED: signal deaths are reported as SIGNALLED + signum
SIGNALLED == 1000
\* poll_state: at most ReadRounds reads of at most ReadBuf bytes each
ReadRounds == 5
ReadBuf == 4

VARIABLES
    \* backend settings and environment, fixed for one behaviour
    rootless,      \* Settings.rootless
    pidfd,         \* check::pidfd_supported()
    driver,        \* the resource driver selected for the backend
    keepCgroups,   \* environment variable MINION_DEBUG_KEEP_CGROUPS is set
    \* UidAllocator.used
    used,
    \* per sandbox
    pc,            \* lifecycle position of the sandbox object
    uid,           \* LinuxSandbox.dealloc_uid (0 is None)
    zygote,        \* the zygote cell: "absent" before creation, "Some", "None"
    zygAlive,      \* the zygote process is alive
    group,         \* the resource group of the sandbox exists
    tle,           \* SandboxState: was_cpu_tle, was_wall_tle
    chan,          \* watchdog events not yet drained by poll_state
    wd,            \* position of the watchdog task
    elapsed,       \* wall time since the sandbox was created, in watchdog periods
    cpuUsage,      \* cumulative CPU time of the resource group
    job,           \* jobs, the zygote's Task list and the wait futures
    ret            \* outcome of the last create, spawn or resource_usage call

cfgVars == <<rootless, pidfd, driver, keepCgroups>>
sbVars == <<pc, uid, zygote, zygAlive, group, tle, chan, wd, elapsed,
            cpuUsage, job, ret>>

VARIABLES
    \* the zygote socket of one sandbox, packet by packet
    mtx,           \* the mutex around the zygote socket: 0, or the thread that holds it
    th,            \* the calling threads
    c2z,           \* requests sent to the zygote and not yet read
    z2c,           \* packets sent by the zygote and not yet read
    zyg,           \* the zygote's position in its request loop
    ztasks,        \* Zygote.tasks: the pids of the stored Tasks
    handed,        \* pids of the child processes returned to callers, not yet awaited
    xid            \* number of exchanges started

wireVars == <<mtx, th, c2z, z2c, zyg, ztasks, handed, xid>>

VARIABLES
    \* one forked child of the zygote on its way to exec
    cx             \* position, resource group, seccomp state and descriptor table

execVars == <<cx>>

VARIABLES
    \* one watchdog with a cpu_time_limit of any width
    wt             \* position, limit, elapsed periods, events sent, zygote cell

tickVars == <<wt>>

VARIABLES
    \* one resource driver and its groups
    gd             \* kind, settings, group records, the last call and its result

groupVars == <<gd>>

VARIABLES
    \* the selection of the resource driver when a backend is made
    sel            \* settings, environment, candidates probed, result

selectVars == <<sel>>

VARIABLES
    \* a uid allocator with any range
    ua             \* range, in-use set, the last call and its result

allocVars == <<ua>>

VARIABLES
    \* the start of one zygote: the caller, the helper and the zygote itself
    sz             \* positions, the socket pair, the pipe, the steps done

startVars == <<sz>>

VARIABLES
    \* one direction of a socket pair
    ip             \* the datagrams in flight, the calls made, the last results

ipcVars == <<ip>>

VARIABLES
    \* the stdio of one spawned child
    io             \* the three specifications and what spawn made of them

stdioVars == <<io>>

VARIABLES
    \* the event channel of one sandbox with the Heartbeats in it
    pl             \* the pending events, the flag pair, the last check

pollVars == <<pl>>

VARIABLES
    \* the main loop of one zygote
    lp             \* the loop, its Tasks, its children, the socket, the futures

loopVars == <<lp>>

VARIABLES
    \* the job child after a failed execvpe
    dg             \* its position, the path it examines, its output, its exit code

diagVars == <<dg>>

VARIABLES
    \* the enter handle of the rlimit driver in one child
    en             \* its limits, the rlimits set, the result of join

enterVars == <<en>>

VARIABLES
    \* the descriptors of one spawn request on their way to the zygote
    sf             \* the request, the datagrams in flight, what the zygote received

fdsVars == <<sf>>

VARIABLES
    \* a caller whose spawn may fail half way, and the zygote it talks to
    ab             \* the datagrams to the zygote, the zygote's position, the call

abortVars == <<ab>>

VARIABLES
    \* the mutexes of one sandbox and of its driver, and the threads that use them
    lk             \* the holders of the mutexes, the zygote, the calls in progress

lockVars == <<lk>>












\* the variables of the parts that are specified on their own
auxVars == <<wireVars, execVars, tickVars, groupVars, selectVars, allocVars, startVars, ipcVars, stdioVars, pollVars, loopVars, diagVars, enterVars, fdsVars, abortVars, lockVars>>

vars == <<rootless, pidfd, driver, keepCgroups, used, pc, uid, zygote, zygAlive,
          group, tle, chan, wd, elapsed, cpuUsage, job, ret, auxVars>>

(***************************************************************************)
(* UidAllocator                                                            *)
(***************************************************************************)
\* a faulty allocate that ignores the result of the insertion
allocate_ignoring_insert(us) ==
    IF UidLow < UidHigh THEN UidLow ELSE 0

RECURSIVE scan_inclusive(_, _, _)
\* a faulty scan over low..=high
scan_inclusive(u, high, us) ==
    IF u > high THEN [some |-> FALSE, v |-> 0]
    ELSE IF u \notin us THEN [some |-> TRUE, v |-> u]
    ELSE scan_inclusive(u + 1, high, us)

RECURSIVE scan(_, _, _)
\* for uid in self.low..self.high { if used.insert(uid) { return Some(uid) } } None
scan(u, high, us) ==
    IF u >= high THEN [some |-> FALSE, v |-> 0]
    ELSE IF u \notin us THEN [some |-> TRUE, v |-> u]
    ELSE scan(u + 1, high, us)

\* UidAllocator::allocate: the first uid of low..high whose insertion into
\* the set succeeds; 0 stands for None
allocate(us) ==
    LET r == scan(UidLow, UidHigh, us) IN IF r.some THEN r.v ELSE 0

\* UidAllocator::deallocate: assert!(used.remove(&uid))
deallocate_ok(us, u) == u \in us
deallocate(us, u) == us \ {u}

(***************************************************************************)
(* Values                                                                  *)
(***************************************************************************)
NoJob == [st |-> "none", ws |-> [kind |-> "none", v |-> 0],
          task |-> [present |-> FALSE, code |-> -1], notified |-> FALSE,
          fut |-> "none", res |-> [tag |-> "none", v |-> 0]]
NoRet == [op |-> "none", res |-> "none"]
\* a thread that is not inside a call on the sandbox
NoCall == [pcw |-> "idle", op |-> "none", x |-> 0, pid |-> 0, stray |-> FALSE]
\* the zygote waiting in handle_one_request
ZygoteIdle == [step |-> 0, pid |-> 0, x |-> 0, alive |-> TRUE]

InitWire ==
    /\ mtx = 0
    /\ th = [t \in Threads |-> NoCall]
    /\ c2z = <<>>
    /\ z2c = <<>>
    /\ zyg = ZygoteIdle
    /\ ztasks = {}
    /\ handed = {}
    /\ xid = 0

\* no child has been forked
NoChild == [pcx |-> "none", kind |-> "none", joined |-> FALSE, nnp |-> FALSE,
            filter |-> FALSE, fdt |-> <<>>, stdio |-> <<>>, extra |-> <<>>,
            req |-> <<>>]

InitExec == cx = NoChild

\* no watchdog has been spawned
\* no closure of the watchdog has run
NoTick == [done |-> FALSE, usage |-> 0, el |-> 0, steps |-> <<>>]
NoWatchdog == [st |-> "none", lim |-> 0, el |-> 0, ev |-> <<>>, zyg |-> FALSE,
               failed |-> FALSE, tick |-> NoTick]

InitTick == wt = NoWatchdog

GroupIds == 1..NGroups
\* no record, no directory
NoGroup == [present |-> FALSE, pids |-> 0, zyg |-> FALSE]
NoGroupCall == [op |-> "none", id |-> 0, pids |-> 0, res |-> "none",
                before |-> [g \in GroupIds |-> NoGroup]]
\* no driver has been made
NoDriver == [kind |-> "none", rootless |-> FALSE, allow |-> FALSE, writable |-> FALSE,
             groups |-> [g \in GroupIds |-> NoGroup], last |-> NoGroupCall]

InitGroup == gd = NoDriver

\* no backend has been made
NoSelection == [st |-> "none", kinds |-> <<>>, rootless |-> FALSE,
                env |-> [v1 |-> FALSE, v2 |-> FALSE], res |-> "none",
                driver |-> [drv |-> "none", allow |-> FALSE], probed |-> <<>>,
                attempts |-> <<>>, sandbox |-> "none"]

InitSelect == sel = NoSelection

\* a part that has not been made yet holds its position only
Unmade == [st |-> "none"]

\* no call of the allocator has been made
NoAllocCall == [op |-> "none", res |-> "none", uid |-> 0, before |-> {}]
NoAllocator == [st |-> "none", low |-> 0, high |-> 0, used |-> {}, last |-> NoAllocCall]

InitAlloc == ua = Unmade

\* start_zygote has not been called
NoStart == [a |-> "none", b |-> 0, bst |-> "none", c |-> 0, cst |-> "none",
            toHelper |-> <<>>, toZygote |-> <<>>, pipe |-> <<>>, log |-> <<>>,
            ret |-> [res |-> "none", pid |-> "none"]]

\* before start_zygote the three processes have their positions only
Unstarted == [a |-> "none", bst |-> "none", cst |-> "none"]

InitStart == sz = Unstarted

\* a value of a serializable type: a number, and for a Query the paths it
\* carries, which are UTF-8 or not
NoValue == [utf8 |-> TRUE, n |-> 0]
NoIpcCall == [op |-> "none", T |-> "none", v |-> NoValue, fds |-> <<>>]
NoIpcResult == [op |-> "none", r |-> "none", v |-> NoValue, fds |-> <<>>, eof |-> FALSE,
                matched |-> FALSE, want |-> NoIpcCall, n |-> 0]
NoIpcSent == [op |-> "none", r |-> "none", n |-> 0, added |-> <<>>]
\* no socket pair has been made
NoIpc == [st |-> "none", q |-> <<>>, closed |-> FALSE, calls |-> <<>>, ncalls |-> 0,
          nfds |-> 0, sync |-> TRUE, sent |-> NoIpcSent, last |-> NoIpcResult]

InitIpc == ip = Unmade

\* no descriptor: None of an Option<Fd> or of an Option of a pipe
NoDescriptor == [file |-> "none", flags |-> "none", h |-> 0, dup |-> FALSE]
NoStream == [r |-> "none", caller |-> NoDescriptor, child |-> NoDescriptor]
NoStdioSpec == [kind |-> "none", h |-> 0, sz |-> "None"]
\* spawn has not been called
NoStdio == [st |-> "none",
            spec |-> [stdin |-> NoStdioSpec, stdout |-> NoStdioSpec, stderr |-> NoStdioSpec],
            stdin |-> NoStream, stdout |-> NoStream, stderr |-> NoStream, res |-> "none"]

InitStdio == io = Unmade

NoFlags == [cpu |-> FALSE, wall |-> FALSE]
NoPollCall == [op |-> "none", res |-> FALSE, emitted |-> FALSE, before |-> NoFlags]
\* no sandbox has been created
NoPoll == [st |-> "none", chan |-> <<>>, flags |-> NoFlags, emitted |-> NoFlags,
           wd |-> "none", last |-> NoPollCall]

InitPoll == pl = Unmade

\* no Task for the job, no child process, no wait future
NoTask == [present |-> FALSE, exit_code |-> -1, notify |-> 0]
NoLoopChild == [st |-> "none", ws |-> [kind |-> "exited", v |-> 0]]
NoFuture == [st |-> "none", code |-> -1]
\* the zygote has not entered its loop
NoLoop == [st |-> "none", sock |-> <<>>, sig |-> FALSE,
           tasks |-> [j \in Jobs |-> NoTask],
           child |-> [j \in Jobs |-> NoLoopChild],
           fut |-> [j \in Jobs |-> NoFuture]]

InitLoop == lp = Unmade

InitDiag == dg = Unmade

InitEnter == en = Unmade

InitFds == sf = Unmade

InitAbort == ab = Unmade

InitLock == lk = Unmade

InitAux == InitWire /\ InitExec /\ InitTick /\ InitGroup /\ InitSelect /\ InitAlloc /\ InitStart /\ InitIpc /\ InitStdio /\ InitPoll /\ InitLoop /\ InitDiag /\ InitEnter /\ InitFds /\ InitAbort /\ InitLock

Init ==
    /\ rootless \in BOOLEAN
    /\ pidfd \in BOOLEAN
    /\ driver \in {"cgroup", "prlimit"}
    /\ keepCgroups \in BOOLEAN
    /\ used = {}
    /\ pc = [s \in Sandboxes |-> "none"]
    /\ uid = [s \in Sandboxes |-> 0]
    /\ zygote = [s \in Sandboxes |-> "absent"]
    /\ zygAlive = [s \in Sandboxes |-> FALSE]
    /\ group = [s \in Sandboxes |-> FALSE]
    /\ tle = [s \in Sandboxes |-> [cpu |-> FALSE, wall |-> FALSE]]
    /\ chan = [s \in Sandboxes |-> <<>>]
    /\ wd = [s \in Sandboxes |-> "none"]
    /\ elapsed = [s \in Sandboxes |-> 0]
    /\ cpuUsage = [s \in Sandboxes |-> 0]
    /\ job = [s \in Sandboxes |-> [j \in Jobs |-> NoJob]]
    /\ ret = [s \in Sandboxes |-> NoRet]
    /\ InitAux

(***************************************************************************)
(* Killing the zygote                                                      *)
(***************************************************************************)
\* The kernel's part of a SIGKILL to the zygote: the zygote is PID 1 of the
\* sandbox's PID namespace, so every job dies with it.
KilledJob(jb) ==
    IF jb.st = "running"
    THEN [jb EXCEPT !.st = "gone", !.ws = [kind |-> "signaled", v |-> 9]]
    ELSE IF jb.st = "zombie" THEN [jb EXCEPT !.st = "gone"] ELSE jb

\* a faulty take that stores a handle back when the cell is empty
take_swapping(c) == IF c = "None" THEN "Some" ELSE "None"

\* Option::take on the zygote cell
take(c) == "None"

\* a faulty send_term_signals that sends only signals the target may survive
send_term_signals_catchable(alive) == alive

\* send_term_signals: SIGKILL, SIGTERM, SIGABRT to the zygote pid; the result
\* is whether the target is alive afterwards
send_term_signals(alive) == FALSE

\* The zygote process of sandbox s ends (killed, or by its own panic): the
\* jobs of its PID namespace end with it.
ZygoteDies(s, jb) ==
    /\ zygAlive' = [zygAlive EXCEPT ![s] = FALSE]
    /\ job' = [job EXCEPT ![s] = [j \in Jobs |-> KilledJob(jb[j])]]

\* Clearing the zygote cell of sandbox s: take() and the drop of the ZygoteInfo
\* that was in it (send_term_signals to the zygote pid).
TakeZygote(s) ==
    /\ zygote' = [zygote EXCEPT ![s] = take(zygote[s])]
    /\ IF zygote[s] = "Some" /\ zygAlive[s] /\ ~send_term_signals(zygAlive[s])
       THEN ZygoteDies(s, job[s])
       ELSE UNCHANGED <<zygAlive, job>>

(***************************************************************************)
(* LinuxSandbox::create                                                    *)
(***************************************************************************)
\* First half of create: the shared items are converted, then the uid is
\* chosen.  flagsOk: every shared-item flag is "recursive".
create_uid(s, flagsOk) ==
    /\ pc[s] = "none"
    /\ IF ~flagsOk
       THEN /\ pc' = [pc EXCEPT ![s] = "failed"]
            /\ ret' = [ret EXCEPT ![s] = [op |-> "create", res |-> "InvalidSharedItemFlag"]]
            /\ UNCHANGED <<used, uid>>
       ELSE IF rootless
       THEN /\ pc' = [pc EXCEPT ![s] = "creating"]
            /\ UNCHANGED <<used, uid, ret>>
       ELSE IF allocate(used) = 0
       THEN /\ pc' = [pc EXCEPT ![s] = "failed"]
            /\ ret' = [ret EXCEPT ![s] = [op |-> "create", res |-> "UidExhausted"]]
            /\ UNCHANGED <<used, uid>>
       ELSE /\ pc' = [pc EXCEPT ![s] = "creating"]
            /\ used' = used \cup {allocate(used)}
            /\ uid' = [uid EXCEPT ![s] = allocate(used)]
            /\ UNCHANGED ret
    /\ UNCHANGED <<cfgVars, auxVars, zygote, zygAlive, group, tle, chan, wd,
                   elapsed, cpuUsage, job>>

\* Second half of create: start_zygote and the construction of the sandbox
\* object.  started: start_zygote returned Ok.  On failure create returns
\* through `?` and no LinuxSandbox (hence no Drop) exists for the uid.
create_zygote(s, started) ==
    /\ pc[s] = "creating"
    /\ IF started
       THEN /\ pc' = [pc EXCEPT ![s] = "live"]
            /\ zygote' = [zygote EXCEPT ![s] = "Some"]
            /\ zygAlive' = [zygAlive EXCEPT ![s] = TRUE]
            /\ group' = [group EXCEPT ![s] = TRUE]
            /\ wd' = [wd EXCEPT ![s] = "sleep"]
            /\ ret' = [ret EXCEPT ![s] = [op |-> "create", res |-> "ok"]]
            /\ UNCHANGED uid
       ELSE /\ pc' = [pc EXCEPT ![s] = "failed"]
            /\ uid' = [uid EXCEPT ![s] = 0]
            /\ ret' = [ret EXCEPT ![s] = [op |-> "create", res |-> "err"]]
            /\ UNCHANGED <<zygote, zygAlive, group, wd>>
    /\ UNCHANGED <<cfgVars, auxVars, used, tle, chan, elapsed, cpuUsage, job>>

(***************************************************************************)
(* LinuxSandbox::kill                                                      *)
(***************************************************************************)
\* kill_sandbox: takes the zygote cell; ok is the io::Result it returns.
kill_sandbox(s, ok) ==
    IF ok THEN TakeZygote(s) ELSE UNCHANGED <<zygote, zygAlive, job>>

\* Sandbox::kill called by the owner
kill(s, ok) ==
    /\ pc[s] = "live"
    /\ kill_sandbox(s, ok)
    /\ UNCHANGED <<cfgVars, auxVars, used, pc, uid, group, tle, chan, wd,
                   elapsed, cpuUsage, ret>>

(***************************************************************************)
(* Drop for LinuxSandbox                                                   *)
(***************************************************************************)
\* The sandbox is dropped when its last reference goes away: no child
\* process or wait future of the sandbox is still held.
NoFutureHeld(s) == \A j \in Jobs : job[s][j].fut \notin {"pending", "asked", "asked_dead"}

\* "Reclaim UID"
drop_reclaim_uid(s) ==
    /\ pc[s] = "live"
    /\ NoFutureHeld(s)
    /\ IF uid[s] # 0
       THEN IF deallocate_ok(used, uid[s])
            THEN /\ used' = deallocate(used, uid[s])
                 /\ uid' = [uid EXCEPT ![s] = 0]
                 /\ pc' = [pc EXCEPT ![s] = "drop_kill"]
            ELSE /\ pc' = [pc EXCEPT ![s] = "panicked"]
                 /\ UNCHANGED <<used, uid>>
       ELSE /\ pc' = [pc EXCEPT ![s] = "drop_kill"]
            /\ UNCHANGED <<used, uid>>
    /\ UNCHANGED <<cfgVars, auxVars, zygote, zygAlive, group, tle, chan, wd,
                   elapsed, cpuUsage, job, ret>>

\* "Kill all processes": panic!("unable to kill sandbox") when kill fails
drop_kill(s, ok) ==
    /\ pc[s] = "drop_kill"
    /\ kill_sandbox(s, ok)
    /\ pc' = [pc EXCEPT ![s] = IF ok THEN "drop_cgroup" ELSE "panicked"]
    /\ UNCHANGED <<cfgVars, auxVars, used, uid, group, tle, chan, wd, elapsed,
                   cpuUsage, ret>>

\* Driver::delete_group.  cgroup drivers: remove_dir, whose error is discarded
\* with .ok() (removed: it succeeded).  prlimit driver: the group is removed
\* from the map, assert!(deleted.is_some()).
delete_group_panics(s) == driver = "prlimit" /\ ~group[s]
delete_group(s, removed) ==
    IF driver = "prlimit" THEN FALSE ELSE group[s] /\ ~removed

\* "Remove cgroups": skipped when MINION_DEBUG_KEEP_CGROUPS is set
drop_cgroup(s, removed) ==
    /\ pc[s] = "drop_cgroup"
    /\ IF keepCgroups
       THEN /\ pc' = [pc EXCEPT ![s] = "dropped"]
            /\ UNCHANGED group
       ELSE IF delete_group_panics(s)
       THEN /\ pc' = [pc EXCEPT ![s] = "panicked"]
            /\ UNCHANGED group
       ELSE /\ pc' = [pc EXCEPT ![s] = "dropped"]
            /\ group' = [group EXCEPT ![s] = delete_group(s, removed)]
    /\ UNCHANGED <<cfgVars, auxVars, used, uid, zygote, zygAlive, tle, chan, wd,
                   elapsed, cpuUsage, job, ret>>

(***************************************************************************)
(* IPC: Socket::send, Socket::recv                                         *)
(***************************************************************************)
\* typeid::<T>(): a hash of the type; distinct types have distinct ids, and
\* no type has the id of a zeroed header
typeid(T) ==
    CASE T = "i32" -> 1
      [] T = "i64" -> 2
      [] T = "JobStartupInfo" -> 3
      [] T = "ResourceUsageInformation" -> 4
      [] OTHER -> 5

\* what the receiving end of the socket finds: a message sent with
\* send::<T>, end of file (peer closed, nothing unread), or ECONNRESET (the
\* peer was closed with data of ours still unread)
Msg(T, v) == [kind |-> "msg", id |-> typeid(T), v |-> v]
Eof == [kind |-> "eof", id |-> 0, v |-> 0]
Reset == [kind |-> "reset", id |-> 0, v |-> 0]

\* Socket::recv::<T>: a failed recvmsg is Err; a read of zero bytes leaves the
\* zeroed header; assert_eq!(id, typeid::<T>()) panics on any other id
recv(T, m) ==
    IF m.kind = "reset" THEN [r |-> "Err", v |-> 0]
    ELSE IF m.id # typeid(T) THEN [r |-> "panic", v |-> 0]
    ELSE [r |-> "Ok", v |-> m.v]

(***************************************************************************)
(* The zygote: main_loop.rs                                                *)
(***************************************************************************)
\* the exit code the zygote computes from a wait status
ExitCodeOf(ws) == IF ws.kind = "exited" THEN ws.v ELSE ws.v + SIGNALLED

\* run_loop_legacy puts the signal descriptor into the read set only
\* if pidfd_supported(); the legacy loop runs only if it is not
SigFdWatched == pidfd

\* reap_children runs in the legacy loop when the signal descriptor is ready
Reaps == ~pidfd /\ SigFdWatched

\* process_exited_child: record the exit code in the Task and write to notify
process_exited_child(jb) ==
    IF jb.task.present
    THEN [jb EXCEPT !.task.code = ExitCodeOf(jb.ws), !.notified = TRUE, !.st = "gone"]
    ELSE [jb EXCEPT !.st = "gone"]

\* process_get_exit_code_query: the reply the zygote sends for the job, as the
\* message the caller will find (the zygote panics on an unknown pid or on a
\* job that is still running, and the caller finds end of file)
process_get_exit_code_query(jb) ==
    IF ~jb.task.present THEN Eof
    ELSE IF jb.task.code # -1 THEN Msg("i64", jb.task.code)
    ELSE IF jb.st # "running" THEN Msg("i64", ExitCodeOf(jb.ws))
    ELSE Eof

(***************************************************************************)
(* LinuxSandbox::spawn_job and the zygote's process_spawn_query            *)
(***************************************************************************)
\* the stdio descriptors a spawn passes are those whose specification is not
\* Null: nfds of them; the zygote waits for StdioFds
StdioFds == 3

NextJob(s, j) ==
    /\ job[s][j].st = "none" /\ job[s][j].fut = "none"
    /\ \A i \in Jobs : i < j => job[s][i].st # "none"

\* the mutex around the zygote socket is free: no exit-code query is between
\* its send and its recv
SockFree(s) == \A i \in Jobs : job[s][i].fut \notin {"asked", "asked_dead"}

spawn_job(s, j, nfds) ==
    /\ pc[s] = "live"
    /\ NextJob(s, j)
    /\ SockFree(s)
    /\ IF zygAlive[s]
       THEN IF nfds = StdioFds
            THEN \* the zygote starts the job, stores its Task and replies
                 /\ job' = [job EXCEPT ![s][j] =
                        [NoJob EXCEPT !.st = "running", !.task.present = TRUE,
                                      !.fut = "pending"]]
                 /\ ret' = [ret EXCEPT ![s] = [op |-> "spawn", res |-> "ok"]]
                 /\ UNCHANGED <<pc, zygAlive>>
            ELSE IF nfds = 0
            THEN \* send_fds sends nothing: the zygote waits for descriptors
                 \* and the caller for the reply
                 /\ pc' = [pc EXCEPT ![s] = "blocked"]
                 /\ ret' = [ret EXCEPT ![s] = [op |-> "spawn", res |-> "blocked"]]
                 /\ UNCHANGED <<zygAlive, job>>
            ELSE \* recv_fds(3) fails on the count, the zygote panics on
                 \* unwrap and the caller's recv finds end of file
                 /\ ZygoteDies(s, job[s])
                 /\ ret' = [ret EXCEPT ![s] =
                        [op |-> "spawn",
                         res |-> IF recv("JobStartupInfo", Eof).r = "panic"
                                 THEN "panic" ELSE "err"]]
                 /\ UNCHANGED pc
       ELSE \* the zygote is dead: send fails and is ignored, send_fds fails
            \* with EPIPE if it sends anything, else recv finds end of file
            /\ ret' = [ret EXCEPT ![s] =
                   [op |-> "spawn",
                    res |-> IF nfds > 0 THEN "err"
                            ELSE IF recv("JobStartupInfo", Eof).r = "panic"
                            THEN "panic" ELSE "err"]]
            /\ UNCHANGED <<pc, zygAlive, job>>
    /\ UNCHANGED <<cfgVars, auxVars, used, uid, zygote, group, tle, chan, wd,
                   elapsed, cpuUsage>>

\* a caller blocked in spawn_job is released when the zygote dies: its recv
\* finds end of file
spawn_job_released(s) ==
    /\ pc[s] = "blocked"
    /\ ~zygAlive[s]
    /\ pc' = [pc EXCEPT ![s] = "live"]
    /\ ret' = [ret EXCEPT ![s] =
           [op |-> "spawn",
            res |-> IF recv("JobStartupInfo", Eof).r = "panic" THEN "panic" ELSE "err"]]
    /\ UNCHANGED <<cfgVars, auxVars, used, uid, zygote, zygAlive, group, tle, chan, wd,
                   elapsed, cpuUsage, job>>

(***************************************************************************)
(* Jobs                                                                    *)
(***************************************************************************)
\* A running job ends with wait status ws.  The legacy loop reaps it if the
\* signal descriptor is watched.
job_exit(s, j, ws) ==
    /\ job[s][j].st = "running"
    /\ job' = [job EXCEPT ![s][j] =
           IF Reaps
           THEN process_exited_child([@ EXCEPT !.st = "zombie", !.ws = ws])
           ELSE [@ EXCEPT !.st = "zombie", !.ws = ws]]
    /\ UNCHANGED <<cfgVars, auxVars, used, pc, uid, zygote, zygAlive, group, tle, chan, wd,
                   elapsed, cpuUsage, ret>>

(***************************************************************************)
(* WaitFuture::poll and LinuxSandbox::get_exit_code                        *)
(***************************************************************************)
\* The event descriptor of the future is readable: the pidfd when the job
\* has ended; the notify pipe when the zygote wrote to it or closed it.
Ready(s, j) ==
    IF pidfd THEN job[s][j].st \in {"zombie", "gone"}
    ELSE job[s][j].notified \/ ~zygAlive[s]

\* get_exit_code, first half: the query is sent, errors ignored
get_exit_code_send(s, j) ==
    /\ pc[s] = "live"
    /\ job[s][j].fut = "pending"
    /\ SockFree(s)
    /\ Ready(s, j)
    /\ job' = [job EXCEPT ![s][j].fut = IF zygAlive[s] THEN "asked" ELSE "asked_dead"]
    /\ UNCHANGED <<cfgVars, auxVars, used, pc, uid, zygote, zygAlive, group, tle, chan, wd,
                   elapsed, cpuUsage, ret>>

\* what the caller's recv finds.  replied: a zygote that died after the query
\* was sent had answered it before it died.
Reply(s, j, replied) ==
    IF job[s][j].fut = "asked_dead" THEN Eof
    ELSE IF zygAlive[s] \/ replied THEN process_get_exit_code_query(job[s][j])
    ELSE Reset

\* get_exit_code, second half: recv::<i32>; Ok(ec) is ExitCode(ec), Err is
\* ExitCode::KILLED
get_exit_code_recv(s, j, replied) ==
    /\ pc[s] = "live"
    /\ job[s][j].fut \in {"asked", "asked_dead"}
    /\ LET got == recv("i32", Reply(s, j, replied))
           handled == job[s][j].fut = "asked" /\ (zygAlive[s] \/ replied)
           jb == IF handled
                 THEN [job[s][j] EXCEPT !.task.present = FALSE,
                                        !.st = IF @ = "zombie" THEN "gone" ELSE @]
                 ELSE job[s][j]
       IN  job' = [job EXCEPT ![s][j] =
               IF got.r = "panic" THEN [jb EXCEPT !.fut = "panicked"]
               ELSE IF got.r = "Ok"
               THEN [jb EXCEPT !.fut = "resolved", !.res = [tag |-> "code", v |-> got.v]]
               ELSE [jb EXCEPT !.fut = "resolved", !.res = [tag |-> "KILLED", v |-> 0]]]
    /\ UNCHANGED <<cfgVars, auxVars, used, pc, uid, zygote, zygAlive, group, tle, chan, wd,
                   elapsed, cpuUsage, ret>>

\* the future is dropped without being awaited
drop_future(s, j) ==
    /\ pc[s] = "live"
    /\ job[s][j].fut = "pending"
    /\ job' = [job EXCEPT ![s][j].fut = "cancelled"]
    /\ UNCHANGED <<cfgVars, auxVars, used, pc, uid, zygote, zygAlive, group, tle, chan, wd,
                   elapsed, cpuUsage, ret>>

(***************************************************************************)
(* Resource usage                                                          *)
(***************************************************************************)
\* Driver::resource_usage of the group of sandbox s.  cgroup drivers read the
\* usage file of the group; the prlimit driver asks the zygote in the cell.
driver_resource_usage(s) ==
    IF driver = "cgroup"
    THEN IF group[s] THEN [r |-> "Ok", v |-> cpuUsage[s]] ELSE [r |-> "Err", v |-> 0]
    ELSE IF zygote[s] # "Some" THEN [r |-> "SandboxGone", v |-> 0]
    ELSE IF ~zygAlive[s] THEN [r |-> "Err", v |-> 0]
    ELSE [r |-> recv("ResourceUsageInformation",
                     Msg("ResourceUsageInformation", cpuUsage[s])).r,
          v |-> cpuUsage[s]]

\* Sandbox::resource_usage
resource_usage(s) ==
    /\ pc[s] = "live"
    /\ ret' = [ret EXCEPT ![s] =
           [op |-> "resource_usage",
            res |-> IF driver_resource_usage(s).r = "Ok" THEN "ok"
                    ELSE IF driver_resource_usage(s).r = "SandboxGone" THEN "SandboxGone"
                    ELSE "err"]]
    /\ UNCHANGED <<cfgVars, auxVars, used, pc, uid, zygote, zygAlive, group, tle, chan, wd,
                   elapsed, cpuUsage, job>>

(***************************************************************************)
(* SandboxState and poll_state                                             *)
(***************************************************************************)
\* process_flag: CpuTle sets was_cpu_tle, RealTle sets was_wall_tle
process_flag(st, ev) ==
    IF ev = "CpuTle" THEN [st EXCEPT !.cpu = TRUE]
    ELSE IF ev = "RealTle" THEN [st EXCEPT !.wall = TRUE]
    ELSE st

RECURSIVE process_flags(_, _)
process_flags(st, evs) ==
    IF evs = <<>> THEN st ELSE process_flags(process_flag(st, Head(evs)), Tail(evs))

\* poll_state reads at most ReadRounds times ReadBuf entries of the channel
Drained(c) == IF Len(c) <= ReadRounds * ReadBuf THEN c ELSE SubSeq(c, 1, ReadRounds * ReadBuf)
Left(c) == IF Len(c) <= ReadRounds * ReadBuf THEN <<>> ELSE SubSeq(c, ReadRounds * ReadBuf + 1, Len(c))

\* the flag pair after poll_state
poll_state(s) == process_flags(tle[s], Drained(chan[s]))

\* the value check_cpu_tle (which = "cpu") or check_real_tle (which = "wall")
\* returns
check_tle_value(s, which) == poll_state(s)[which]

\* check_cpu_tle and check_real_tle: the channel is drained into the flags
check_tle(s) ==
    /\ pc[s] = "live"
    /\ tle' = [tle EXCEPT ![s] = poll_state(s)]
    /\ chan' = [chan EXCEPT ![s] = Left(chan[s])]
    /\ UNCHANGED <<cfgVars, auxVars, used, pc, uid, zygote, zygAlive, group, wd,
                   elapsed, cpuUsage, job, ret>>

(***************************************************************************)
(* The watchdog                                                            *)
(***************************************************************************)
\* a faulty test that takes every try_send of the Heartbeat as delivered
Disconnected_ignored(s) == FALSE

\* the receiver of the event channel is gone: the sandbox object was dropped
Disconnected(s) == pc[s] \in {"dropped", "panicked"}

\* one period passes: the watchdog wakes up from its sleep and sends the
\* Heartbeat, which carries no flag and only tests that the receiver exists;
\* the watchdog exits if the channel is disconnected
watchdog_heartbeat(s) ==
    /\ wd[s] = "sleep"
    /\ elapsed[s] < MaxTime
    /\ elapsed' = [elapsed EXCEPT ![s] = @ + 1]
    /\ wd' = [wd EXCEPT ![s] = IF Disconnected(s) THEN "exited" ELSE "check"]
    /\ UNCHANGED <<cfgVars, auxVars, used, pc, uid, zygote, zygAlive, group, tle, chan,
                   cpuUsage, job, ret>>

\* get_cpu_usage(..).unwrap_or_else(|err| u64::max_value())
current_usage(usage) == IF usage.r = "Ok" THEN usage.v ELSE U64Max

\* current_usage > cpu_time_limit
was_cpu_tle(usage, limit) == current_usage(usage) > limit
\* elapsed > real_time_limit
was_real_tle(el) == el > RealLimit

\* a faulty ok that is true while either limit is kept
watchdog_ok_either(cpuT, realT) == ~cpuT \/ ~realT

\* let ok = !was_cpu_tle && !was_real_tle
watchdog_ok(cpuT, realT) == ~cpuT /\ ~realT

\* the event the watchdog sends when it is not ok
watchdog_event(cpuT, realT) == IF cpuT THEN "CpuTle" ELSE "RealTle"

\* the blocking closure of one watchdog period
watchdog_check(s) ==
    /\ wd[s] = "check"
    /\ LET cpuT == was_cpu_tle(driver_resource_usage(s), CpuLimit)
           realT == was_real_tle(elapsed[s])
       IN  IF watchdog_ok(cpuT, realT)
           THEN /\ wd' = [wd EXCEPT ![s] = "sleep"]
                /\ UNCHANGED <<chan, zygote, zygAlive, job>>
           ELSE /\ chan' = [chan EXCEPT ![s] =
                       IF Disconnected(s) THEN @ ELSE Append(@, watchdog_event(cpuT, realT))]
                /\ TakeZygote(s)
                /\ wd' = [wd EXCEPT ![s] = "killed"]
    /\ UNCHANGED <<cfgVars, auxVars, used, pc, uid, group, tle, elapsed, cpuUsage, ret>>

(***************************************************************************)
(* CPU time                                                                *)
(***************************************************************************)
\* a running job consumes one unit of CPU time
burn(s) ==
    /\ \E j \in Jobs : job[s][j].st = "running"
    /\ cpuUsage[s] <= CpuLimit
    /\ cpuUsage' = [cpuUsage EXCEPT ![s] = @ + 1]
    /\ UNCHANGED <<cfgVars, auxVars, used, pc, uid, zygote, zygAlive, group, tle, chan, wd,
                   elapsed, job, ret>>

(***************************************************************************)
(* The zygote socket, packet by packet                                     *)
(***************************************************************************)
\* Socket::send::<T> is two packets: the header (length, typeid::<T>()) and
\* the serialized value; send_fds is one packet that carries descriptors.
\* of is the type that was sent and x the exchange the packet belongs to.  A
\* packet that is not a header shows no type's id when it is read as one.
Hdr(T, x) == [kind |-> "hdr", id |-> typeid(T), of |-> T, v |-> 0, x |-> x]
Body(T, v, x) == [kind |-> "body", id |-> 0, of |-> T, v |-> v, x |-> x]
FdPkt(x) == [kind |-> "fds", id |-> 0, of |-> "fd", v |-> 0, x |-> x]

\* the type a caller asks recv for
ReplyType(op) ==
    CASE op = "spawn" -> "JobStartupInfo"
      [] op = "exit" -> "i32"
      [] OTHER -> "ResourceUsageInformation"

\* A thread enters spawn_job (op = "spawn"), get_exit_code (op = "exit", for
\* the pid p of a child process it holds) or the prlimit driver's
\* resource_usage (op = "usage"): it locks the mutex and sends the query,
\* and spawn_job the descriptors after it.
call_begin(t, op, p) ==
    /\ th[t].pcw = "idle"
    /\ mtx = 0
    /\ xid < MaxExch
    /\ zyg.alive
    /\ \/ op = "spawn" /\ p = 0
       \/ op = "exit" /\ p \in handed
       \/ op = "usage" /\ p = 0 /\ driver = "prlimit"
    /\ mtx' = t
    /\ xid' = xid + 1
    /\ th' = [th EXCEPT ![t] = [@ EXCEPT !.pcw = "sent", !.op = op,
                                        !.x = xid + 1, !.pid = p]]
    /\ c2z' = Append(c2z, [op |-> op, pid |-> p, x |-> xid + 1])
    /\ handed' = handed \ {p}
    /\ UNCHANGED <<z2c, zyg, ztasks>>
    /\ UNCHANGED <<cfgVars, used, sbVars, execVars, tickVars, groupVars, selectVars, allocVars, startVars, ipcVars, stdioVars, pollVars, loopVars, diagVars, enterVars, fdsVars, abortVars, lockVars>>

\* a faulty process_spawn_query that answers before it stores the Task
spawn_order_info_first == <<"info", "store", "fd">>

\* process_spawn_query after the fork: tasks.push(Task), send(&startup_info),
\* send_fds(&[event])
spawn_order == <<"store", "info", "fd">>

\* handle_one_request: the zygote reads one query and handles it
zygote_recv ==
    /\ zyg.alive
    /\ zyg.step = 0
    /\ c2z # <<>>
    /\ c2z' = Tail(c2z)
    /\ LET r == Head(c2z)
       IN  CASE r.op = "spawn" ->
                 \* the job is forked; its pid is new
                 /\ zyg' = [zyg EXCEPT !.step = 1, !.pid = r.x, !.x = r.x]
                 /\ UNCHANGED <<z2c, ztasks>>
             [] r.op = "exit" ->
                 IF r.pid \in ztasks
                 THEN /\ ztasks' = ztasks \ {r.pid}
                      /\ z2c' = z2c \o <<Hdr("i64", r.x), Body("i64", 0, r.x)>>
                      /\ UNCHANGED zyg
                 ELSE \* expect("unknown pid")
                      /\ zyg' = [zyg EXCEPT !.alive = FALSE]
                      /\ UNCHANGED <<z2c, ztasks>>
             [] OTHER ->
                 /\ z2c' = z2c \o <<Hdr("ResourceUsageInformation", r.x),
                              Body("ResourceUsageInformation", 0, r.x)>>
                 /\ UNCHANGED <<zyg, ztasks>>
    /\ UNCHANGED <<mtx, th, handed, xid>>
    /\ UNCHANGED <<cfgVars, used, sbVars, execVars, tickVars, groupVars, selectVars, allocVars, startVars, ipcVars, stdioVars, pollVars, loopVars, diagVars, enterVars, fdsVars, abortVars, lockVars>>

\* the next step of process_spawn_query
zygote_spawn_step ==
    /\ zyg.alive
    /\ zyg.step > 0
    /\ LET what == spawn_order[zyg.step]
       IN  /\ ztasks' = IF what = "store" THEN ztasks \cup {zyg.pid} ELSE ztasks
           /\ z2c' = IF what = "info"
                     THEN z2c \o <<Hdr("JobStartupInfo", zyg.x),
                                   Body("JobStartupInfo", zyg.pid, zyg.x)>>
                     ELSE IF what = "fd" THEN Append(z2c, FdPkt(zyg.x))
                     ELSE z2c
    /\ zyg' = IF zyg.step = Len(spawn_order) THEN ZygoteIdle
              ELSE [zyg EXCEPT !.step = @ + 1]
    /\ UNCHANGED <<mtx, th, c2z, handed, xid>>
    /\ UNCHANGED <<cfgVars, used, sbVars, execVars, tickVars, groupVars, selectVars, allocVars, startVars, ipcVars, stdioVars, pollVars, loopVars, diagVars, enterVars, fdsVars, abortVars, lockVars>>

\* the caller's recv::<T>: the first packet is read as the header; if its id
\* is that of T the next packet is read as the value, else the assertion
\* panics and the unwinding drops the guard of the mutex.  get_exit_code and
\* resource_usage return after it.
call_recv(t) ==
    /\ th[t].pcw = "sent"
    /\ z2c # <<>>
    /\ LET first == Head(z2c)
           got == recv(ReplyType(th[t].op), first)
       IN  IF got.r = "Ok"
           THEN /\ Len(z2c) >= 2
                /\ z2c' = Tail(Tail(z2c))
                /\ th' = [th EXCEPT ![t] =
                       [@ EXCEPT !.pcw = IF th[t].op = "spawn" THEN "info" ELSE "idle",
                                 !.pid = IF th[t].op = "spawn" THEN z2c[2].v ELSE @,
                                 !.stray = @ \/ first.x # th[t].x \/ z2c[2].x # th[t].x]]
                /\ mtx' = IF th[t].op = "spawn" THEN mtx ELSE 0
           ELSE /\ z2c' = Tail(z2c)
                /\ th' = [th EXCEPT ![t] =
                       [@ EXCEPT !.pcw = "panicked", !.stray = @ \/ first.x # th[t].x]]
                /\ mtx' = 0
    /\ UNCHANGED <<c2z, zyg, ztasks, handed, xid>>
    /\ UNCHANGED <<cfgVars, used, sbVars, execVars, tickVars, groupVars, selectVars, allocVars, startVars, ipcVars, stdioVars, pollVars, loopVars, diagVars, enterVars, fdsVars, abortVars, lockVars>>

\* spawn_job's recv_fds(1): a packet without descriptors is an Ancillary
\* error; either way spawn_job returns
call_recv_fds(t) ==
    /\ th[t].pcw = "info"
    /\ z2c # <<>>
    /\ z2c' = Tail(z2c)
    /\ th' = [th EXCEPT ![t] = [@ EXCEPT !.pcw = "idle",
                                        !.stray = @ \/ Head(z2c).x # th[t].x]]
    /\ handed' = IF Head(z2c).kind = "fds" THEN handed \cup {th[t].pid} ELSE handed
    /\ mtx' = 0
    /\ UNCHANGED <<c2z, zyg, ztasks, xid>>
    /\ UNCHANGED <<cfgVars, used, sbVars, execVars, tickVars, groupVars, selectVars, allocVars, startVars, ipcVars, stdioVars, pollVars, loopVars, diagVars, enterVars, fdsVars, abortVars, lockVars>>

(***************************************************************************)
(* The forked child: process_spawn_query's descriptors and do_exec         *)
(***************************************************************************)
\* Vec::rotate_left(k)
rotate_left(q, k) == SubSeq(q, k + 1, Len(q)) \o SubSeq(q, 1, k)

\* a faulty split that pops without rotating
split_fds_unrotated(child_fds) ==
    LET n == Len(child_fds)
    IN  [stdio |-> <<child_fds[n - 2], child_fds[n - 1], child_fds[n]>>,
         extra |-> SubSeq(child_fds, 1, n - 3)]

\* process_spawn_query: child_fds.rotate_left(3), then c, b, a are popped:
\* stdio is [a, b, c] and what is left are the extra descriptors
split_fds(child_fds) ==
    LET r == rotate_left(child_fds, StdioFds)
        n == Len(r)
    IN  [stdio |-> <<r[n - 2], r[n - 1], r[n]>>, extra |-> SubSeq(r, 1, n - 3)]

\* The descriptor numbers of the zygote at the fork: its own stdio, its
\* socket, the duplicates of the n received descriptors, the child's end of
\* the wake-up socket and the handle of the resource group; do_exec's dup(2)
\* takes the next one.
ZygSock == StdioFds
FirstDup == ZygSock + 1
ChildSock(n) == FirstDup + n
JoinFd(n) == FirstDup + n + 1
StderrDup(n) == FirstDup + n + 2
\* descriptor numbers a caller asks for are its own numbers; the model draws
\* them above those the zygote uses
ReqBase == FirstDup + StdioFds + MaxExtra + 3
ReqFds == ReqBase..(ReqBase + MaxExtra - 1)
MaxFd == ReqBase + MaxExtra - 1
FdNums == 0..MaxFd

Closed == [obj |-> "closed", ce |-> FALSE]
\* the object the caller sent as i-th descriptor
Sent(i) ==
    CASE i = 1 -> "in" [] i = 2 -> "out" [] i = 3 -> "err"
      [] i = 4 -> "extra1" [] i = 5 -> "extra2" [] i = 6 -> "extra3" [] OTHER -> "extra4"

\* the descriptor table of the child right after the fork
fork_table(n) ==
    [f \in FdNums |->
        CASE f = 0 -> [obj |-> "zin", ce |-> FALSE]
          [] f = 1 -> [obj |-> "zout", ce |-> FALSE]
          [] f = 2 -> [obj |-> "zerr", ce |-> FALSE]
          [] f = ZygSock -> [obj |-> "sock", ce |-> TRUE]
          [] f >= FirstDup /\ f < FirstDup + n -> [obj |-> Sent(f - FirstDup + 1), ce |-> FALSE]
          [] f = ChildSock(n) -> [obj |-> "child_sock", ce |-> FALSE]
          [] f = JoinFd(n) -> [obj |-> "join", ce |-> FALSE]
          [] f = StderrDup(n) -> [obj |-> "zerr", ce |-> FALSE]
          [] OTHER -> Closed]

\* dup2(src, dst), result ignored: nothing happens on a closed src or on
\* src = dst; else dst refers to the object of src, without close-on-exec
dup2(t, from, to) ==
    IF t[from].obj = "closed" \/ from = to THEN t
    ELSE [t EXCEPT ![to] = [obj |-> t[from].obj, ce |-> FALSE]]

\* fcntl(fd, F_SETFD, FD_CLOEXEC) on every open descriptor
cloexec_all(t) == [f \in FdNums |-> IF t[f].obj = "closed" THEN t[f] ELSE [t[f] EXCEPT !.ce = TRUE]]

\* what execve leaves open
after_exec(t) == [f \in FdNums |-> IF t[f].ce THEN Closed ELSE t[f]]

\* the zygote forks a child for a spawn query with nx extra descriptors,
\* asked for at the numbers req; kind is the resource driver of the sandbox
exec_fork(kind, req) ==
    /\ cx.pcx = "none"
    /\ LET n == StdioFds + Len(req)
           parts == split_fds([i \in 1..n |-> FirstDup + i - 1])
       IN  cx' = [NoChild EXCEPT !.pcx = "join", !.kind = kind, !.fdt = fork_table(n),
                                 !.stdio = parts.stdio, !.extra = parts.extra,
                                 !.req = req]
    /\ UNCHANGED <<cfgVars, used, sbVars, wireVars, tickVars, groupVars, selectVars, allocVars, startVars, ipcVars, stdioVars, pollVars, loopVars, diagVars, enterVars, fdsVars, abortVars, lockVars>>

\* the system calls one join makes: a write per cgroup v1 hierarchy, one
\* write for cgroup v2, three setrlimit calls for the rlimit driver
JoinCalls(kind) == IF kind = "cgroup_v2" THEN 1 ELSE 3
DriverKinds == {"cgroup_v1", "cgroup_v2", "prlimit"}
Outcomes(n) == [1..n -> BOOLEAN]

\* the child is a member of the group with every limit in force
applied(oks) == \A i \in 1..Len(oks) : oks[i]

\* a faulty join that reports the outcome of the last call only
join_last_only(kind, oks) == IF oks[JoinCalls(kind)] THEN "Ok" ELSE "Err"

\* EnterHandle::join / JoinHandle::join_self: the calls are made in order
\* and the first that fails is the result
join(kind, oks) == IF \A i \in 1..JoinCalls(kind) : oks[i] THEN "Ok" ELSE "Err"

\* a faulty enable that goes on when the seccomp call fails
enable_unchecked(nnpOk, filterOk) ==
    IF ~nnpOk THEN [nnp |-> FALSE, filter |-> FALSE, res |-> "panic"]
    ELSE [nnp |-> TRUE, filter |-> filterOk, res |-> "Ok"]

\* Seccomp::enable: prctl(PR_SET_NO_NEW_PRIVS), then seccomp(SET_MODE_FILTER);
\* a call that does not return 0 panics
enable(nnpOk, filterOk) ==
    IF ~nnpOk THEN [nnp |-> FALSE, filter |-> FALSE, res |-> "panic"]
    ELSE IF ~filterOk THEN [nnp |-> TRUE, filter |-> FALSE, res |-> "panic"]
    ELSE [nnp |-> TRUE, filter |-> TRUE, res |-> "Ok"]

\* injective sequences of requested numbers
Requests == UNION {{q \in [1..n -> ReqFds] : \A i, j \in 1..n : q[i] = q[j] => i = j} : n \in 0..MaxExtra}

exec_step(c) == UNCHANGED <<cfgVars, used, sbVars, wireVars, tickVars, groupVars, selectVars, allocVars, startVars, ipcVars, stdioVars, pollVars, loopVars, diagVars, enterVars, fdsVars, abortVars, lockVars>> /\ cx' = c

\* do_exec joins the group; OpaqueEnterHandle::join exits on Err and
\* join_self exits at the failing write
exec_join(oks) ==
    /\ cx.pcx = "join"
    /\ exec_step(IF join(cx.kind, oks) = "Ok"
                 THEN [cx EXCEPT !.pcx = "cloexec", !.joined = applied(oks)]
                 ELSE [cx EXCEPT !.pcx = "exited", !.joined = applied(oks)])

\* every open descriptor gets FD_CLOEXEC; a failing fcntl panics, and the
\* panic hook exits
exec_cloexec(ok) ==
    /\ cx.pcx = "cloexec"
    /\ exec_step(IF ok THEN [cx EXCEPT !.pcx = "ids", !.fdt = cloexec_all(cx.fdt)]
                 ELSE [cx EXCEPT !.pcx = "exited"])

\* setgid and setuid; err_exit on failure
exec_setids(gidOk, uidOk) ==
    /\ cx.pcx = "ids"
    /\ exec_step(IF gidOk /\ uidOk THEN [cx EXCEPT !.pcx = "wait"]
                 ELSE [cx EXCEPT !.pcx = "exited"])

\* the child waits for the zygote's go-ahead; lock(..).unwrap() panics on an
\* error
exec_wait(ok) ==
    /\ cx.pcx = "wait"
    /\ exec_step(IF ok THEN [cx EXCEPT !.pcx = "stdio"] ELSE [cx EXCEPT !.pcx = "exited"])

\* dup2 of stdin, stdout and stderr onto 0, 1 and 2
exec_dup_stdio ==
    /\ cx.pcx = "stdio"
    /\ exec_step([cx EXCEPT !.pcx = "extra",
                            !.fdt = dup2(dup2(dup2(cx.fdt, cx.stdio[1], 0), cx.stdio[2], 1),
                                         cx.stdio[3], 2)])

RECURSIVE dup_extra(_, _, _)
dup_extra(t, from, to) ==
    IF from = <<>> THEN t
    ELSE dup_extra(dup2(t, Head(from), Head(to)), Tail(from), Tail(to))

\* each extra descriptor is installed at the number asked for, in order
exec_dup_extra ==
    /\ cx.pcx = "extra"
    /\ exec_step([cx EXCEPT !.pcx = "seccomp", !.fdt = dup_extra(cx.fdt, cx.extra, cx.req)])

\* the seccomp policy is applied just before execve
exec_seccomp(nnpOk, filterOk) ==
    /\ cx.pcx = "seccomp"
    /\ LET e == enable(nnpOk, filterOk)
       IN  exec_step([cx EXCEPT !.pcx = IF e.res = "Ok" THEN "execve" ELSE "exited",
                                !.nnp = e.nnp, !.filter = e.filter])

\* execvpe: on success the program runs with the descriptors that are not
\* close-on-exec; on failure the child exits
exec_execve(ok) ==
    /\ cx.pcx = "execve"
    /\ exec_step(IF ok THEN [cx EXCEPT !.pcx = "execed", !.fdt = after_exec(cx.fdt)]
                 ELSE [cx EXCEPT !.pcx = "exited"])

\* the zygote reaps the child and serves the next spawn query
exec_reap ==
    /\ cx.pcx \in {"execed", "exited"}
    /\ exec_step(NoChild)

NextExec ==
    \/ \E kind \in DriverKinds, req \in Requests : exec_fork(kind, req)
    \/ \E oks \in Outcomes(JoinCalls(cx.kind)) : exec_join(oks)
    \/ \E ok \in BOOLEAN : exec_cloexec(ok)
    \/ \E gidOk, uidOk \in BOOLEAN : exec_setids(gidOk, uidOk)
    \/ \E ok \in BOOLEAN : exec_wait(ok)
    \/ exec_dup_stdio
    \/ exec_dup_extra
    \/ \E nnpOk, filterOk \in BOOLEAN : exec_seccomp(nnpOk, filterOk)
    \/ \E ok \in BOOLEAN : exec_execve(ok)
    \/ exec_reap

SpecExec == Init /\ [][NextExec]_vars

(***************************************************************************)
(* The watchdog with any cpu_time_limit                                    *)
(***************************************************************************)
\* what one read of the CPU usage can give
UsageReads == {[r |-> "Err", v |-> 0]} \cup {[r |-> "Ok", v |-> v] : v \in 0..U64Max}

\* a sandbox is created and its watchdog spawned with cpu_time_limit in
\* nanoseconds, which is as_nanos() as u64 of any Duration
tick_spawn(lim) ==
    /\ wt.st = "none"
    /\ wt' = [NoWatchdog EXCEPT !.st = "sleep", !.lim = lim, !.zyg = TRUE]
    /\ UNCHANGED <<cfgVars, used, sbVars, wireVars, execVars, groupVars, selectVars, allocVars, startVars, ipcVars, stdioVars, pollVars, loopVars, diagVars, enterVars, fdsVars, abortVars, lockVars>>

\* a period passes and the Heartbeat is sent to a live receiver
tick_sleep ==
    /\ wt.st = "sleep"
    /\ wt.el < MaxTime
    /\ wt' = [wt EXCEPT !.st = "check", !.el = @ + 1, !.failed = FALSE]
    /\ UNCHANGED <<cfgVars, used, sbVars, wireVars, execVars, groupVars, selectVars, allocVars, startVars, ipcVars, stdioVars, pollVars, loopVars, diagVars, enterVars, fdsVars, abortVars, lockVars>>

\* a faulty closure that takes the zygote before it sends the event
kill_order_take_first(event) == <<"take", event>>

\* what the closure does when it is not ok, in the order of its statements:
\* chan.send(event), then zygote.lock() and zyg.take()
kill_order(event) == <<event, "take">>

\* the blocking closure of the period, with the outcome of its read
tick_check(usage) ==
    /\ wt.st = "check"
    /\ LET cpuT == was_cpu_tle(usage, wt.lim)
           realT == was_real_tle(wt.el)
           steps == IF watchdog_ok(cpuT, realT) THEN <<>>
                    ELSE kill_order(watchdog_event(cpuT, realT))
           tick == [done |-> TRUE, usage |-> current_usage(usage), el |-> wt.el,
                    steps |-> steps]
       IN  wt' = IF watchdog_ok(cpuT, realT)
                 THEN [wt EXCEPT !.st = "sleep", !.failed = usage.r = "Err",
                                 !.tick = tick]
                 ELSE [wt EXCEPT !.st = "killed", !.failed = usage.r = "Err",
                                 !.ev = Append(@, watchdog_event(cpuT, realT)),
                                 !.zyg = FALSE, !.tick = tick]
    /\ UNCHANGED <<cfgVars, used, sbVars, wireVars, execVars, groupVars, selectVars, allocVars, startVars, ipcVars, stdioVars, pollVars, loopVars, diagVars, enterVars, fdsVars, abortVars, lockVars>>

\* the sandbox is dropped
tick_drop ==
    /\ wt.st \in {"sleep", "killed"}
    /\ wt' = NoWatchdog
    /\ UNCHANGED <<cfgVars, used, sbVars, wireVars, execVars, groupVars, selectVars, allocVars, startVars, ipcVars, stdioVars, pollVars, loopVars, diagVars, enterVars, fdsVars, abortVars, lockVars>>

NextTick ==
    \/ \E lim \in 0..U64Max : tick_spawn(lim)
    \/ tick_sleep
    \/ \E usage \in UsageReads : tick_check(usage)
    \/ tick_drop

SpecTick == Init /\ [][NextTick]_vars

(***************************************************************************)
(* The groups of a resource driver                                         *)
(***************************************************************************)
\* Prlimit::create_group: the pids check, then the insert of a fresh record
\* and the assertion that the id had none
prlimit_create_group(groups, allow, id, pids) ==
    IF pids > 1 /\ ~allow
    THEN [res |-> "PidsLimitEnforcementImpossible", groups |-> groups]
    ELSE [res |-> IF groups[id].present THEN "panic" ELSE "Ok",
          groups |-> [groups EXCEPT ![id] = [present |-> TRUE, pids |-> pids, zyg |-> FALSE]]]

\* CgroupV1::create_group and CgroupV2::create_group: create_dir_all, the
\* writes of the limits, the open of the tasks file; an error of any of them
\* is returned
cgroup_create_group(groups, writable, id, pids) ==
    IF ~writable THEN [res |-> "CgroupError", groups |-> groups]
    ELSE [res |-> "Ok",
          groups |-> [groups EXCEPT ![id] = [present |-> TRUE, pids |-> pids, zyg |-> FALSE]]]

\* Driver::new_raw: a driver of the kind, with no group; the rlimit driver
\* allows many processes unless the settings say rootless
group_new_raw(kind, rl, writable) ==
    /\ gd.kind = "none"
    /\ gd' = [NoDriver EXCEPT !.kind = kind, !.rootless = rl, !.writable = writable,
                              !.allow = ~rl]
    /\ UNCHANGED <<cfgVars, used, sbVars, wireVars, execVars, tickVars, selectVars, allocVars, startVars, ipcVars, stdioVars, pollVars, loopVars, diagVars, enterVars, fdsVars, abortVars, lockVars>>

\* Driver::create_group
group_create(id, pids) ==
    /\ gd.kind # "none"
    /\ LET r == IF gd.kind = "prlimit"
                THEN prlimit_create_group(gd.groups, gd.allow, id, pids)
                ELSE cgroup_create_group(gd.groups, gd.writable, id, pids)
       IN  gd' = [gd EXCEPT !.groups = r.groups,
                            !.last = [op |-> "create", id |-> id, pids |-> pids,
                                      res |-> r.res, before |-> gd.groups]]
    /\ UNCHANGED <<cfgVars, used, sbVars, wireVars, execVars, tickVars, selectVars, allocVars, startVars, ipcVars, stdioVars, pollVars, loopVars, diagVars, enterVars, fdsVars, abortVars, lockVars>>

\* Driver::register_group_details, which only the rlimit driver implements
group_register(id) ==
    /\ gd.kind # "none"
    /\ gd.groups[id].present
    /\ gd' = [gd EXCEPT !.groups[id].zyg = IF gd.kind = "prlimit" THEN TRUE ELSE @,
                        !.last = [op |-> "register", id |-> id, pids |-> 0,
                                  res |-> "Ok", before |-> gd.groups]]
    /\ UNCHANGED <<cfgVars, used, sbVars, wireVars, execVars, tickVars, selectVars, allocVars, startVars, ipcVars, stdioVars, pollVars, loopVars, diagVars, enterVars, fdsVars, abortVars, lockVars>>

\* Driver::delete_group of a group that exists
group_delete(id) ==
    /\ gd.kind # "none"
    /\ gd.groups[id].present
    /\ gd' = [gd EXCEPT !.groups[id] = NoGroup,
                        !.last = [op |-> "delete", id |-> id, pids |-> 0,
                                  res |-> "Ok", before |-> gd.groups]]
    /\ UNCHANGED <<cfgVars, used, sbVars, wireVars, execVars, tickVars, selectVars, allocVars, startVars, ipcVars, stdioVars, pollVars, loopVars, diagVars, enterVars, fdsVars, abortVars, lockVars>>

NextGroup ==
    \/ \E kind \in DriverKinds, rl, w \in BOOLEAN : group_new_raw(kind, rl, w)
    \/ \E id \in GroupIds, pids \in 1..PidsMax : group_create(id, pids)
    \/ \E id \in GroupIds : group_register(id)
    \/ \E id \in GroupIds : group_delete(id)

SpecGroup == Init /\ [][NextGroup]_vars

(***************************************************************************)
(* Driver::new: the selection of the resource driver                       *)
(***************************************************************************)
\* ResourceDriverKind; Auto { allow_dangerous } is AutoSafe or AutoDangerous
ResourceDriverKinds ==
    {"CgroupV1", "CgroupV2", "CgroupAuto", "Prlimit", "AutoSafe", "AutoDangerous"}
KindLists == UNION {[1..n -> ResourceDriverKinds] : n \in 0..MaxKinds}
Environments == [v1 : BOOLEAN, v2 : BOOLEAN]
Raw(drv, allow) == [drv |-> drv, allow |-> allow]

RECURSIVE process_driver_kind_v2_first(_, _, _)
\* a faulty expansion that puts cgroup v2 before cgroup v1
process_driver_kind_v2_first(rl, out, kind) ==
    CASE kind = "CgroupV1" -> Append(out, Raw("cgroup_v1", FALSE))
      [] kind = "CgroupV2" -> Append(out, Raw("cgroup_v2", FALSE))
      [] kind = "CgroupAuto" ->
            process_driver_kind_v2_first(rl,
                process_driver_kind_v2_first(rl, out, "CgroupV2"), "CgroupV1")
      [] kind = "Prlimit" -> Append(out, Raw("prlimit", ~rl))
      [] OTHER ->
            LET o == process_driver_kind_v2_first(rl, out, "CgroupAuto")
            IN  IF kind = "AutoDangerous"
                THEN process_driver_kind_v2_first(rl, o, "Prlimit") ELSE o

RECURSIVE process_driver_kind(_, _, _)
\* process_driver_kind pushes the raw settings of a kind on out
process_driver_kind(rl, out, kind) ==
    CASE kind = "CgroupV1" -> Append(out, Raw("cgroup_v1", FALSE))
      [] kind = "CgroupV2" -> Append(out, Raw("cgroup_v2", FALSE))
      [] kind = "CgroupAuto" ->
            process_driver_kind(rl, process_driver_kind(rl, out, "CgroupV1"), "CgroupV2")
      [] kind = "Prlimit" -> Append(out, Raw("prlimit", ~rl))
      [] OTHER ->
            LET o == process_driver_kind(rl, out, "CgroupAuto")
            IN  IF kind = "AutoDangerous" THEN process_driver_kind(rl, o, "Prlimit") ELSE o

RECURSIVE configs_of(_, _, _)
\* for driver_kind in &settings.resource_drivers
configs_of(rl, out, kinds) ==
    IF kinds = <<>> THEN out
    ELSE configs_of(rl, process_driver_kind(rl, out, Head(kinds)), Tail(kinds))

\* pids_max of the group that smoke_check creates
SmokePids == 1024

\* smoke_check: create_group of a group with a random id, then check_access;
\* for a cgroup driver both depend on the cgroupfs of the host
smoke_check(config, env) ==
    CASE config.drv = "cgroup_v1" -> IF env.v1 THEN "Ok" ELSE "CgroupError"
      [] config.drv = "cgroup_v2" -> IF env.v2 THEN "Ok" ELSE "CgroupError"
      [] OTHER ->
            prlimit_create_group([g \in GroupIds |-> NoGroup], config.allow, 1, SmokePids).res

RECURSIVE probe(_, _, _, _)
\* the loop of Driver::new over the candidates
probe(configs, env, probed, attempts) ==
    IF configs = <<>>
    THEN [res |-> "SelectDriverImpl", driver |-> Raw("none", FALSE), probed |-> probed,
          attempts |-> attempts]
    ELSE LET c == Head(configs)
             e == smoke_check(c, env)
         IN  IF e = "Ok"
             THEN [res |-> "Ok", driver |-> c, probed |-> Append(probed, c),
                   attempts |-> attempts]
             ELSE probe(Tail(configs), env, Append(probed, c),
                        Append(attempts, [config |-> c, error |-> e]))

\* LinuxBackend::new with the settings, on a host with the environment
driver_new(kinds, rl, env) ==
    /\ sel.st = "none"
    /\ LET r == probe(configs_of(rl, <<>>, kinds), env, <<>>, <<>>)
       IN  sel' = [NoSelection EXCEPT !.st = "done", !.kinds = kinds, !.rootless = rl,
                                      !.env = env, !.res = r.res, !.driver = r.driver,
                                      !.probed = r.probed, !.attempts = r.attempts]
    /\ UNCHANGED <<cfgVars, used, sbVars, wireVars, execVars, tickVars, groupVars, allocVars, startVars, ipcVars, stdioVars, pollVars, loopVars, diagVars, enterVars, fdsVars, abortVars, lockVars>>

\* a sandbox is made on the backend: the group of the sandbox is created
\* under an id of its own
select_new_sandbox(pids) ==
    /\ sel.st = "done"
    /\ sel.res = "Ok"
    /\ sel.sandbox = "none"
    /\ sel' = [sel EXCEPT !.sandbox =
                  IF sel.driver.drv = "prlimit"
                  THEN prlimit_create_group([g \in GroupIds |-> NoGroup], sel.driver.allow,
                                            1, pids).res
                  ELSE "Ok"]
    /\ UNCHANGED <<cfgVars, used, sbVars, wireVars, execVars, tickVars, groupVars, allocVars, startVars, ipcVars, stdioVars, pollVars, loopVars, diagVars, enterVars, fdsVars, abortVars, lockVars>>

\* the backend is dropped
select_drop ==
    /\ sel.st = "done"
    /\ sel' = NoSelection
    /\ UNCHANGED <<cfgVars, used, sbVars, wireVars, execVars, tickVars, groupVars, allocVars, startVars, ipcVars, stdioVars, pollVars, loopVars, diagVars, enterVars, fdsVars, abortVars, lockVars>>

NextSelect ==
    \/ \E kinds \in KindLists, rl \in BOOLEAN, env \in Environments : driver_new(kinds, rl, env)
    \/ \E pids \in 1..PidsMax : select_new_sandbox(pids)
    \/ select_drop

SpecSelect == Init /\ [][NextSelect]_vars

(***************************************************************************)
(* The uid allocator with any range                                        *)
(***************************************************************************)
\* UidAllocator::new(settings.uid.low, settings.uid.high), which asserts
\* low <= high
alloc_new(low, high) ==
    /\ ua.st = "none"
    /\ low <= high
    /\ ua' = [NoAllocator EXCEPT !.st = "made", !.low = low, !.high = high]
    /\ UNCHANGED <<cfgVars, used, sbVars, wireVars, execVars, tickVars, groupVars, selectVars, startVars, ipcVars, stdioVars, pollVars, loopVars, diagVars, enterVars, fdsVars, abortVars, lockVars>>

\* LinuxSandbox::create with root: uid_alloc.allocate().ok_or(UidExhausted)?
alloc_create ==
    /\ ua.st = "made"
    /\ LET r == scan(ua.low, ua.high, ua.used)
       IN  ua' = IF r.some
                 THEN [ua EXCEPT !.used = @ \cup {r.v},
                                 !.last = [op |-> "allocate", res |-> "Ok", uid |-> r.v,
                                           before |-> ua.used]]
                 ELSE [ua EXCEPT !.last = [op |-> "allocate", res |-> "UidExhausted",
                                           uid |-> 0, before |-> ua.used]]
    /\ UNCHANGED <<cfgVars, used, sbVars, wireVars, execVars, tickVars, groupVars, selectVars, startVars, ipcVars, stdioVars, pollVars, loopVars, diagVars, enterVars, fdsVars, abortVars, lockVars>>

\* the drop of a sandbox gives its uid back
alloc_deallocate(u) ==
    /\ ua.st = "made"
    /\ deallocate_ok(ua.used, u)
    /\ ua' = [ua EXCEPT !.used = deallocate(@, u),
                        !.last = [op |-> "deallocate", res |-> "Ok", uid |-> u,
                                  before |-> ua.used]]
    /\ UNCHANGED <<cfgVars, used, sbVars, wireVars, execVars, tickVars, groupVars, selectVars, startVars, ipcVars, stdioVars, pollVars, loopVars, diagVars, enterVars, fdsVars, abortVars, lockVars>>

\* the backend is dropped
alloc_drop ==
    /\ ua.st = "made"
    /\ ua' = Unmade
    /\ UNCHANGED <<cfgVars, used, sbVars, wireVars, execVars, tickVars, groupVars, selectVars, startVars, ipcVars, stdioVars, pollVars, loopVars, diagVars, enterVars, fdsVars, abortVars, lockVars>>

NextAlloc ==
    \/ \E low, high \in 0..AllocMax : alloc_new(low, high)
    \/ alloc_create
    \/ \E u \in 0..AllocMax : alloc_deallocate(u)
    \/ alloc_drop

SpecAlloc == Init /\ [][NextAlloc]_vars

(***************************************************************************)
(* start_zygote: the caller (A), the initialization helper (B) and the     *)
(* zygote main process (C)                                                 *)
(***************************************************************************)
\* a faulty helper that reports the maps as created before it writes them
helper_order_wake_first ==
    <<"lock_ready", "wake_created", "setgroups", "uid_map", "gid_map",
      "lock_finished", "write_pid">>

\* start_zygote_initialization_helper, statement by statement
helper_order ==
    <<"lock_ready", "setgroups", "uid_map", "gid_map", "wake_created",
      "lock_finished", "write_pid">>

\* a faulty setup that reports the end of the setup before chroot
setup_order_wake_first ==
    <<"hook", "sighandler", "wake_ready", "lock_created", "chmod", "chown", "bind",
      "proc", "cgroup", "watch", "wake_finished", "chroot", "serve">>

\* setup, statement by statement (configure_dir is fchmodat then chown), and
\* the entry into the message loop that follows it
setup_order ==
    <<"hook", "sighandler", "wake_ready", "lock_created", "chmod", "chown", "bind",
      "proc", "cgroup", "watch", "chroot", "wake_finished", "serve">>

\* the steps whose effect is on the file system or the process
Effects ==
    {"setgroups", "uid_map", "gid_map", "chmod", "chown", "bind", "proc", "cgroup",
     "watch", "chroot", "serve"}

\* the class a lock waits for, and the class a wake sends
ClassOf(step) ==
    CASE step \in {"lock_ready", "wake_ready"} -> "PID_MAP_READY_FOR_SETUP"
      [] step \in {"lock_created", "wake_created"} -> "PID_MAP_CREATED"
      [] OTHER -> "SETUP_FINISHED"

\* start_zygote: socketpair, pipe, fork, the unshare calls and the second
\* fork.  unshared: the unshare calls returned Ok (a failure of
\* unshare(CLONE_NEWNS) is Ok if allow_mount_ns_failure); forked: the second
\* fork returned Ok.  The caller goes on to wait for the pipe in every case.
start_zygote(unshared, forked) ==
    /\ sz.a = "none"
    /\ sz' = IF unshared /\ forked
             THEN [NoStart EXCEPT !.a = "wait", !.b = 1, !.bst = "run", !.c = 1,
                                  !.cst = "run"]
             ELSE [NoStart EXCEPT !.a = "wait", !.bst = "left"]
    /\ UNCHANGED <<cfgVars, used, sbVars, wireVars, execVars, tickVars, groupVars, selectVars, allocVars, ipcVars, stdioVars, pollVars, loopVars, diagVars, enterVars, fdsVars, abortVars, lockVars>>

\* one statement of the helper.  ok: the system call of the statement
\* succeeds.  A lock waits for a message, or for the end of the zygote, and
\* fails on another class; a failed statement ends the helper's part
\* (Err through `?`, or the panic of unwrap).
helper_step(ok) ==
    /\ sz.bst = "run"
    /\ LET step == helper_order[sz.b]
           islock == step \in {"lock_ready", "lock_finished"}
           iswake == step = "wake_created"
           good == IF islock
                   THEN sz.toHelper # <<>> /\ Head(sz.toHelper) = ClassOf(step)
                   ELSE ok
       IN  /\ islock => (sz.toHelper # <<>> \/ sz.cst = "exited")
           /\ sz' = IF ~good
                    THEN [sz EXCEPT !.bst = "left",
                                    !.toHelper = IF islock /\ @ # <<>> THEN Tail(@) ELSE @]
                    ELSE [sz EXCEPT
                             !.b = @ + 1,
                             !.bst = IF sz.b = Len(helper_order) THEN "exited" ELSE "run",
                             !.toHelper = IF islock THEN Tail(@) ELSE @,
                             !.toZygote = IF iswake THEN Append(@, ClassOf(step)) ELSE @,
                             !.pipe = IF step = "write_pid" THEN Append(@, "zygote") ELSE @,
                             !.log = IF step \in Effects THEN Append(@, step) ELSE @]
    /\ UNCHANGED <<cfgVars, used, sbVars, wireVars, execVars, tickVars, groupVars, selectVars, allocVars, ipcVars, stdioVars, pollVars, loopVars, diagVars, enterVars, fdsVars, abortVars, lockVars>>

\* one statement of the zygote's setup.  A failed statement ends the zygote:
\* Err makes the entry return and the process exit, a panic runs the hook,
\* which exits, and err_exit exits in the process with pid 1.
zygote_step(ok) ==
    /\ sz.cst = "run"
    /\ LET step == setup_order[sz.c]
           islock == step = "lock_created"
           iswake == step \in {"wake_ready", "wake_finished"}
           good == IF islock
                   THEN sz.toZygote # <<>> /\ Head(sz.toZygote) = ClassOf(step)
                   ELSE IF step = "hook" THEN TRUE ELSE ok
       IN  /\ islock => sz.toZygote # <<>>
           /\ sz' = IF ~good
                    THEN [sz EXCEPT !.cst = "exited",
                                    !.toZygote = IF islock THEN Tail(@) ELSE @]
                    ELSE [sz EXCEPT
                             !.c = @ + 1,
                             !.cst = IF step = "serve" THEN "serving" ELSE "run",
                             !.toZygote = IF islock THEN Tail(@) ELSE @,
                             !.toHelper = IF iswake THEN Append(@, ClassOf(step)) ELSE @,
                             !.log = IF step \in Effects THEN Append(@, step) ELSE @]
    /\ UNCHANGED <<cfgVars, used, sbVars, wireVars, execVars, tickVars, groupVars, selectVars, allocVars, ipcVars, stdioVars, pollVars, loopVars, diagVars, enterVars, fdsVars, abortVars, lockVars>>

\* start_zygote_caller: the read of the pipe returns the pid and the startup
\* info goes back to LinuxSandbox::create
start_zygote_caller ==
    /\ sz.a = "wait"
    /\ sz.pipe # <<>>
    /\ sz' = [sz EXCEPT !.a = "returned", !.pipe = Tail(@),
                        !.ret = [res |-> "Ok", pid |-> Head(sz.pipe)],
                        !.log = Append(@, "returned")]
    /\ UNCHANGED <<cfgVars, used, sbVars, wireVars, execVars, tickVars, groupVars, selectVars, allocVars, ipcVars, stdioVars, pollVars, loopVars, diagVars, enterVars, fdsVars, abortVars, lockVars>>

\* the zygote ends later, killed or by itself
zygote_ends ==
    /\ sz.cst = "serving"
    /\ sz' = [sz EXCEPT !.cst = "exited"]
    /\ UNCHANGED <<cfgVars, used, sbVars, wireVars, execVars, tickVars, groupVars, selectVars, allocVars, ipcVars, stdioVars, pollVars, loopVars, diagVars, enterVars, fdsVars, abortVars, lockVars>>

\* the sandbox is dropped, or the creation is given up, and another starts
start_over ==
    /\ sz.a \in {"wait", "returned"}
    /\ sz.bst \in {"left", "exited"}
    /\ sz.cst \in {"none", "exited"}
    /\ sz' = Unstarted
    /\ UNCHANGED <<cfgVars, used, sbVars, wireVars, execVars, tickVars, groupVars, selectVars, allocVars, ipcVars, stdioVars, pollVars, loopVars, diagVars, enterVars, fdsVars, abortVars, lockVars>>

NextStart ==
    \/ \E unshared, forked \in BOOLEAN : start_zygote(unshared, forked)
    \/ \E ok \in BOOLEAN : helper_step(ok)
    \/ \E ok \in BOOLEAN : zygote_step(ok)
    \/ start_zygote_caller
    \/ zygote_ends
    \/ start_over

SpecStart == Init /\ [][NextStart]_vars

\* the three processes are scheduled
FairStart ==
    /\ Init
    /\ [][NextStart]_vars
    /\ WF_vars(\E ok \in BOOLEAN : helper_step(ok))
    /\ WF_vars(\E ok \in BOOLEAN : zygote_step(ok))
    /\ WF_vars(start_zygote_caller)

(***************************************************************************)
(* Socket: send, recv, send_fds, recv_fds over a SOCK_SEQPACKET pair       *)
(***************************************************************************)
FD_CHUNK_SIZE == 8

\* the types sent in this part
IpcTypes == {"i64", "Query"}
\* numbers of one decimal digit and of two
IpcNumbers == {0, MaxVal - 1, MaxVal}
IpcValues(T) ==
    IF T = "Query" THEN [utf8 : BOOLEAN, n : IpcNumbers] ELSE [utf8 : {TRUE}, n : IpcNumbers]

\* serde_json::to_vec: the decimal digits of the number in ASCII; a path that
\* is not UTF-8 is an error
RECURSIVE digits(_)
digits(n) == IF n < 10 THEN <<48 + n>> ELSE digits(n \div 10) \o <<48 + (n % 10)>>

to_vec(v) ==
    IF v.utf8 THEN [r |-> "Ok", b |-> digits(v.n)] ELSE [r |-> "Serde", b |-> <<>>]

\* serde_json::from_slice: anything but a run of digits is an error
RECURSIVE number(_)
number(b) ==
    IF b = <<>> THEN 0 ELSE 10 * number(SubSeq(b, 1, Len(b) - 1)) + (b[Len(b)] - 48)

from_slice(b) ==
    IF b # <<>> /\ \A i \in 1..Len(b) : b[i] \in 48..57
    THEN [r |-> "Ok", v |-> [utf8 |-> TRUE, n |-> number(b)]]
    ELSE [r |-> "Serde", v |-> NoValue]

\* sendmsg: one datagram of bytes and passed descriptors
sendmsg(q, b, fds) == Append(q, [b |-> b, fds |-> fds])

\* recvmsg into a zeroed buffer of cap bytes: the next datagram, cut to the
\* buffer; zero bytes when the peer is closed and nothing is left; it blocks
\* while the peer is open and nothing is in flight.  Descriptors are received
\* only where the caller gives room for them
recvmsg(q, closed, cap, cmsg_space) ==
    IF q = <<>>
    THEN [st |-> IF closed THEN "eof" ELSE "block", b |-> [i \in 1..cap |-> 0],
          fds |-> <<>>, q |-> q]
    ELSE [st |-> "ok",
          b |-> [i \in 1..cap |-> IF i <= Len(Head(q).b) THEN Head(q).b[i] ELSE 0],
          fds |-> IF cmsg_space THEN Head(q).fds ELSE <<>>,
          q |-> Tail(q)]

\* Socket::send
Socket_send(q, T, v) ==
    LET message == to_vec(v)
    IN  IF message.r # "Ok" THEN [r |-> "Serde", q |-> q]
        ELSE [r |-> "Ok",
              q |-> sendmsg(sendmsg(q, <<Len(message.b), typeid(T)>>, <<>>),
                            message.b, <<>>)]

\* Socket::recv
Socket_recv(q, closed, T) ==
    LET h == recvmsg(q, closed, 2, FALSE)
        len == h.b[1]
        id == h.b[2]
    IN  IF h.st = "block" THEN [r |-> "block", v |-> NoValue, q |-> q, eof |-> FALSE]
        ELSE IF id # typeid(T)
        THEN [r |-> "panic", v |-> NoValue, q |-> h.q, eof |-> h.st = "eof"]
        ELSE LET d == recvmsg(h.q, closed, len, FALSE)
                 message == from_slice(d.b)
             IN  IF d.st = "block"
                 THEN [r |-> "block", v |-> NoValue, q |-> q, eof |-> FALSE]
                 ELSE [r |-> message.r, v |-> message.v, q |-> d.q,
                       eof |-> h.st = "eof" \/ d.st = "eof"]

\* slice::chunks
RECURSIVE chunks(_, _)
chunks(s, k) ==
    IF s = <<>> THEN <<>>
    ELSE LET m == IF Len(s) < k THEN Len(s) ELSE k
         IN  <<SubSeq(s, 1, m)>> \o chunks(SubSeq(s, m + 1, Len(s)), k)

\* a faulty send_fds that passes all the descriptors in one datagram
Socket_send_fds_unchunked(q, fds) ==
    IF fds = <<>> THEN q ELSE sendmsg(q, <<95>>, fds)

\* Socket::send_fds: the byte "_" and a chunk of descriptors per datagram
Socket_send_fds(q, fds) ==
    LET c == chunks(fds, FD_CHUNK_SIZE)
    IN  q \o [i \in 1..Len(c) |-> [b |-> <<95>>, fds |-> c[i]]]

\* the loop of Socket::recv_fds over the chunks of the result
RECURSIVE recv_chunks(_, _, _, _)
recv_chunks(q, closed, received, acc) ==
    IF received = <<>> THEN [r |-> "Ok", fds |-> acc, q |-> q, eof |-> FALSE]
    ELSE LET msg == recvmsg(q, closed, 1, TRUE)
         IN  IF msg.st = "block" THEN [r |-> "block", fds |-> <<>>, q |-> q, eof |-> FALSE]
             ELSE IF msg.fds = <<>> \/ Len(msg.fds) # Len(Head(received))
             THEN [r |-> "Ancillary", fds |-> <<>>, q |-> msg.q, eof |-> msg.st = "eof"]
             ELSE recv_chunks(msg.q, closed, Tail(received), acc \o msg.fds)

\* Socket::recv_fds
Socket_recv_fds(q, closed, fd_count) ==
    recv_chunks(q, closed, chunks([i \in 1..fd_count |-> 0], FD_CHUNK_SIZE), <<>>)

\* Socket::pair
ipc_pair ==
    /\ ip.st = "none"
    /\ ip' = [NoIpc EXCEPT !.st = "open"]
    /\ UNCHANGED <<cfgVars, used, sbVars, wireVars, execVars, tickVars, groupVars, selectVars, allocVars, startVars, stdioVars, pollVars, loopVars, diagVars, enterVars, fdsVars, abortVars, lockVars>>

\* one end calls send
ipc_send(T, v) ==
    /\ ip.st = "open"
    /\ ~ip.closed
    /\ ip.ncalls < MaxCalls
    /\ LET s == Socket_send(ip.q, T, v)
       IN  ip' = [ip EXCEPT
                     !.q = s.q,
                     !.ncalls = @ + 1,
                     !.calls = IF s.r = "Ok"
                               THEN Append(@, [op |-> "send", T |-> T, v |-> v, fds |-> <<>>])
                               ELSE @,
                     !.sent = [op |-> "send", r |-> s.r, n |-> 0,
                               added |-> SubSeq(s.q, Len(ip.q) + 1, Len(s.q))]]
    /\ UNCHANGED <<cfgVars, used, sbVars, wireVars, execVars, tickVars, groupVars, selectVars, allocVars, startVars, stdioVars, pollVars, loopVars, diagVars, enterVars, fdsVars, abortVars, lockVars>>

\* one end calls send_fds with n descriptors
ipc_send_fds(n) ==
    /\ ip.st = "open"
    /\ ~ip.closed
    /\ ip.ncalls < MaxCalls
    /\ LET fds == [i \in 1..n |-> ip.nfds + i]
           q == Socket_send_fds(ip.q, fds)
       IN  ip' = [ip EXCEPT
                     !.q = q,
                     !.ncalls = @ + 1,
                     !.nfds = @ + n,
                     !.calls = Append(@, [op |-> "send_fds", T |-> "none", v |-> NoValue,
                                          fds |-> fds]),
                     !.sent = [op |-> "send_fds", r |-> "Ok", n |-> n,
                               added |-> SubSeq(q, Len(ip.q) + 1, Len(q))]]
    /\ UNCHANGED <<cfgVars, used, sbVars, wireVars, execVars, tickVars, groupVars, selectVars, allocVars, startVars, stdioVars, pollVars, loopVars, diagVars, enterVars, fdsVars, abortVars, lockVars>>

\* the sending process is killed between the two sendmsg of a send
ipc_killed_in_send(T, v) ==
    /\ ip.st = "open"
    /\ ~ip.closed
    /\ ip.ncalls < MaxCalls
    /\ to_vec(v).r = "Ok"
    /\ ip' = [ip EXCEPT !.q = sendmsg(@, <<Len(to_vec(v).b), typeid(T)>>, <<>>),
                        !.ncalls = @ + 1,
                        !.closed = TRUE]
    /\ UNCHANGED <<cfgVars, used, sbVars, wireVars, execVars, tickVars, groupVars, selectVars, allocVars, startVars, stdioVars, pollVars, loopVars, diagVars, enterVars, fdsVars, abortVars, lockVars>>

\* the sending end is closed
ipc_close ==
    /\ ip.st = "open"
    /\ ~ip.closed
    /\ ip' = [ip EXCEPT !.closed = TRUE]
    /\ UNCHANGED <<cfgVars, used, sbVars, wireVars, execVars, tickVars, groupVars, selectVars, allocVars, startVars, stdioVars, pollVars, loopVars, diagVars, enterVars, fdsVars, abortVars, lockVars>>

\* the call of the peer that matches the oldest call not yet received
IpcWanted == IF ip.calls = <<>> THEN NoIpcCall ELSE Head(ip.calls)

\* the peer calls recv::<T>; its calls after one that did not match what was
\* sent are left out
ipc_recv(T) ==
    /\ ip.st = "open"
    /\ ip.sync
    /\ LET res == Socket_recv(ip.q, ip.closed, T)
           matched == ip.sync /\ IpcWanted.op = "send" /\ IpcWanted.T = T
       IN  /\ res.r # "block"
           /\ ip' = [ip EXCEPT
                        !.q = res.q,
                        !.calls = IF ip.calls = <<>> THEN @ ELSE Tail(@),
                        !.sync = matched,
                        !.last = [op |-> "recv", r |-> res.r, v |-> res.v, fds |-> <<>>,
                                  eof |-> res.eof, matched |-> matched,
                                  want |-> IpcWanted, n |-> 0]]
    /\ UNCHANGED <<cfgVars, used, sbVars, wireVars, execVars, tickVars, groupVars, selectVars, allocVars, startVars, stdioVars, pollVars, loopVars, diagVars, enterVars, fdsVars, abortVars, lockVars>>

\* the peer calls recv_fds(n)
ipc_recv_fds(n) ==
    /\ ip.st = "open"
    /\ ip.sync
    /\ LET res == Socket_recv_fds(ip.q, ip.closed, n)
           matched == ip.sync /\ IpcWanted.op = "send_fds" /\ Len(IpcWanted.fds) = n
       IN  /\ res.r # "block"
           /\ ip' = [ip EXCEPT
                        !.q = res.q,
                        !.calls = IF ip.calls = <<>> THEN @ ELSE Tail(@),
                        !.sync = matched,
                        !.last = [op |-> "recv_fds", r |-> res.r, v |-> NoValue,
                                  fds |-> res.fds, eof |-> res.eof, matched |-> matched,
                                  want |-> IpcWanted, n |-> n]]
    /\ UNCHANGED <<cfgVars, used, sbVars, wireVars, execVars, tickVars, groupVars, selectVars, allocVars, startVars, stdioVars, pollVars, loopVars, diagVars, enterVars, fdsVars, abortVars, lockVars>>

\* both ends are dropped
ipc_drop ==
    /\ ip.st = "open"
    /\ ip' = Unmade
    /\ UNCHANGED <<cfgVars, used, sbVars, wireVars, execVars, tickVars, groupVars, selectVars, allocVars, startVars, stdioVars, pollVars, loopVars, diagVars, enterVars, fdsVars, abortVars, lockVars>>

NextIpc ==
    \/ ipc_pair
    \/ \E T \in IpcTypes : \E v \in IpcValues(T) : ipc_send(T, v)
    \/ \E n \in 0..MaxFds : ipc_send_fds(n)
    \/ \E T \in IpcTypes : \E v \in IpcValues(T) : ipc_killed_in_send(T, v)
    \/ ipc_close
    \/ \E T \in IpcTypes : ipc_recv(T)
    \/ \E n \in 0..MaxFds : ipc_recv_fds(n)
    \/ ipc_drop

\* a socket pair is the same under every configuration of the backend
InitPair == Init /\ ~rootless /\ pidfd /\ driver = "cgroup" /\ keepCgroups

SpecIpc == InitPair /\ [][NextIpc]_vars

(***************************************************************************)
(* spawn: the stdio specifications of a child and the descriptors made     *)
(* for them                                                                *)
(***************************************************************************)
\* raw handles the caller passes in
IoHandles == {StdioFds, StdioFds + 1}

\* InputSpecificationData and OutputSpecificationData
InputSpecifications ==
    [kind : {"Pipe", "Empty", "Null"}, h : {0}, sz : {"None"}]
        \cup [kind : {"Handle"}, h : IoHandles, sz : {"None"}]
OutputSpecifications ==
    [kind : {"Null", "Pipe", "Ignore"}, h : {0}, sz : {"None"}]
        \cup [kind : {"Handle"}, h : IoHandles, sz : {"None"}]
        \cup [kind : {"Buffer"}, h : {0}, sz : {"None", "Some"}]

\* the system call that fails, if any
IoFailures == {"none", "pipe", "dup", "open", "memfd_create", "ftruncate"}

\* fs::File::create: write-only, created if missing, truncated
File_create(path) == [file |-> path, flags |-> "O_WRONLY", h |-> 0, dup |-> FALSE]
\* fs::File::open: read-only
File_open(path) == [file |-> path, flags |-> "O_RDONLY", h |-> 0, dup |-> FALSE]
\* pipe::setup_pipe: the write end and the read end of a new pipe
setup_pipe ==
    [tx |-> [file |-> "pipe", flags |-> "O_WRONLY", h |-> 0, dup |-> FALSE],
     rx |-> [file |-> "pipe", flags |-> "O_RDONLY", h |-> 0, dup |-> FALSE]]
\* memfd_create
memfd_create == [file |-> "memfd", flags |-> "O_RDWR", h |-> 0, dup |-> FALSE]
\* Fd::new of a raw handle
Fd_new(h) == [file |-> "handle", flags |-> "any", h |-> h, dup |-> FALSE]
\* Fd::duplicate_with_inheritance: dup, which shares the open file
duplicate_with_inheritance(f) == [f EXCEPT !.dup = TRUE]

StreamOk(caller, child) == [r |-> "Ok", caller |-> caller, child |-> child]
StreamErr == [r |-> "Err", caller |-> NoDescriptor, child |-> NoDescriptor]
StreamPanic == [r |-> "panic", caller |-> NoDescriptor, child |-> NoDescriptor]

\* handle_input_io
handle_input_io(spec, fail) ==
    CASE spec.kind = "Pipe" ->
             IF fail \in {"pipe", "dup"} THEN StreamErr
             ELSE StreamOk(setup_pipe.tx, duplicate_with_inheritance(setup_pipe.rx))
      [] spec.kind = "Handle" -> StreamOk(NoDescriptor, Fd_new(spec.h))
      [] spec.kind = "Empty" ->
             IF fail \in {"open", "dup"} THEN StreamErr
             ELSE StreamOk(NoDescriptor, duplicate_with_inheritance(File_create("/dev/null")))
      [] OTHER -> StreamOk(NoDescriptor, NoDescriptor)

\* handle_output_io
handle_output_io(spec, fail) ==
    CASE spec.kind = "Null" -> StreamOk(NoDescriptor, NoDescriptor)
      [] spec.kind = "Handle" -> StreamOk(NoDescriptor, Fd_new(spec.h))
      [] spec.kind = "Pipe" ->
             IF fail \in {"pipe", "dup"} THEN StreamErr
             ELSE StreamOk(setup_pipe.rx, duplicate_with_inheritance(setup_pipe.tx))
      [] spec.kind = "Ignore" ->
             IF fail \in {"open", "dup"} THEN StreamErr
             ELSE StreamOk(NoDescriptor, duplicate_with_inheritance(File_open("/dev/null")))
      [] OTHER ->
             IF fail = "memfd_create" THEN StreamPanic
             ELSE IF (spec.sz = "Some" /\ fail = "ftruncate") \/ fail = "dup" THEN StreamErr
             ELSE StreamOk(memfd_create, duplicate_with_inheritance(memfd_create))

\* spawn, up to the call of spawn_job: the three streams in turn, each `?`
\* returning the error at once
io_spawn(stdin, stdout, stderr, fail) ==
    /\ io.st = "none"
    /\ LET i == handle_input_io(stdin, fail)
           o == IF i.r = "Ok" THEN handle_output_io(stdout, fail) ELSE NoStream
           e == IF o.r = "Ok" THEN handle_output_io(stderr, fail) ELSE NoStream
       IN  io' = [st |-> "done",
                  spec |-> [stdin |-> stdin, stdout |-> stdout, stderr |-> stderr],
                  stdin |-> i, stdout |-> o, stderr |-> e,
                  res |-> IF "panic" \in {i.r, o.r, e.r} THEN "panic"
                          ELSE IF "Err" \in {i.r, o.r, e.r} THEN "Err" ELSE "Ok"]
    /\ UNCHANGED <<cfgVars, used, sbVars, wireVars, execVars, tickVars, groupVars, selectVars, allocVars, startVars, ipcVars, pollVars, loopVars, diagVars, enterVars, fdsVars, abortVars, lockVars>>

\* the child process and its pipes are dropped
io_drop ==
    /\ io.st = "done"
    /\ io' = Unmade
    /\ UNCHANGED <<cfgVars, used, sbVars, wireVars, execVars, tickVars, groupVars, selectVars, allocVars, startVars, ipcVars, pollVars, loopVars, diagVars, enterVars, fdsVars, abortVars, lockVars>>

NextStdio ==
    \/ \E stdin \in InputSpecifications, stdout, stderr \in OutputSpecifications,
          fail \in IoFailures : io_spawn(stdin, stdout, stderr, fail)
    \/ io_drop

SpecStdio == Init /\ [][NextStdio]_vars

(***************************************************************************)
(* The event channel between the watchdog and check_cpu_tle,               *)
(* check_real_tle, with every event that is sent on it                     *)
(***************************************************************************)
\* events that can wait in the channel: one more than a poll_state reads
MaxPending == ReadRounds * ReadBuf + 1

\* a sandbox is created and its watchdog spawned
poll_create ==
    /\ pl.st = "none"
    /\ pl' = [NoPoll EXCEPT !.st = "live", !.wd = "sleep"]
    /\ UNCHANGED <<cfgVars, used, sbVars, wireVars, execVars, tickVars, groupVars, selectVars, allocVars, startVars, ipcVars, stdioVars, loopVars, diagVars, enterVars, fdsVars, abortVars, lockVars>>

\* a period of the watchdog within the limits: chan.try_send(Event::Heartbeat)
\* on the unbounded channel, and the closure returns false
poll_heartbeat ==
    /\ pl.st = "live"
    /\ pl.wd = "sleep"
    /\ Len(pl.chan) < MaxPending
    /\ pl' = [pl EXCEPT !.chan = Append(@, "Heartbeat")]
    /\ UNCHANGED <<cfgVars, used, sbVars, wireVars, execVars, tickVars, groupVars, selectVars, allocVars, startVars, ipcVars, stdioVars, loopVars, diagVars, enterVars, fdsVars, abortVars, lockVars>>

\* a period of the watchdog with a limit exceeded: the Heartbeat, then the
\* event of the limit, and the watchdog ends
poll_tle(cpuT, realT) ==
    /\ pl.st = "live"
    /\ pl.wd = "sleep"
    /\ ~watchdog_ok(cpuT, realT)
    /\ Len(pl.chan) < MaxPending
    /\ pl' = [pl EXCEPT
                 !.chan = @ \o <<"Heartbeat", watchdog_event(cpuT, realT)>>,
                 !.emitted = IF cpuT THEN [@ EXCEPT !.cpu = TRUE]
                             ELSE [@ EXCEPT !.wall = TRUE],
                 !.wd = "killed"]
    /\ UNCHANGED <<cfgVars, used, sbVars, wireVars, execVars, tickVars, groupVars, selectVars, allocVars, startVars, ipcVars, stdioVars, loopVars, diagVars, enterVars, fdsVars, abortVars, lockVars>>

\* check_cpu_tle (which = "cpu") or check_real_tle (which = "wall"):
\* poll_state, then the load of the flag
poll_check(which) ==
    /\ pl.st = "live"
    /\ LET flags == process_flags(pl.flags, Drained(pl.chan))
       IN  pl' = [pl EXCEPT
                     !.flags = flags,
                     !.chan = Left(@),
                     !.last = [op |-> which, res |-> flags[which],
                               emitted |-> pl.emitted[which], before |-> pl.flags]]
    /\ UNCHANGED <<cfgVars, used, sbVars, wireVars, execVars, tickVars, groupVars, selectVars, allocVars, startVars, ipcVars, stdioVars, loopVars, diagVars, enterVars, fdsVars, abortVars, lockVars>>

\* the sandbox is dropped
poll_drop ==
    /\ pl.st = "live"
    /\ pl' = Unmade
    /\ UNCHANGED <<cfgVars, used, sbVars, wireVars, execVars, tickVars, groupVars, selectVars, allocVars, startVars, ipcVars, stdioVars, loopVars, diagVars, enterVars, fdsVars, abortVars, lockVars>>

NextPoll ==
    \/ poll_create
    \/ poll_heartbeat
    \/ \E cpuT, realT \in BOOLEAN : poll_tle(cpuT, realT)
    \/ \E which \in {"cpu", "wall"} : poll_check(which)
    \/ poll_drop

SpecPoll == Init /\ [][NextPoll]_vars

(***************************************************************************)
(* The main loop of the zygote: run_loop_pidfd and run_loop_legacy         *)
(***************************************************************************)
\* process_exited_child for the child of job j: the exit code replaces the
\* empty one of the Task, which is asserted, and a byte goes to the notifier
reap_child(l, j) ==
    IF l.tasks[j].present /\ l.tasks[j].exit_code # -1 THEN [l EXCEPT !.st = "panicked"]
    ELSE [l EXCEPT
             !.child[j].st = "reaped",
             !.tasks[j] = IF @.present
                          THEN [@ EXCEPT !.exit_code = ExitCodeOf(l.child[j].ws),
                                         !.notify = IF pidfd THEN @ ELSE @ + 1]
                          ELSE @]

\* reap_children: waitpid(None, WNOHANG) until no child has changed state
RECURSIVE reap_children(_)
reap_children(l) ==
    IF l.st = "panicked" \/ \A j \in Jobs : l.child[j].st # "zombie" THEN l
    ELSE reap_children(reap_child(l, CHOOSE j \in Jobs : l.child[j].st = "zombie"))

\* process_spawn_query: the child is started, its Task is stored, the startup
\* info and the event descriptor are sent
process_spawn_query(l, j) ==
    [l EXCEPT !.child[j] = [NoLoopChild EXCEPT !.st = "running"],
              !.tasks[j] = [NoTask EXCEPT !.present = TRUE],
              !.fut[j] = [NoFuture EXCEPT !.st = "pending"]]

\* process_get_exit_code_query of the loop: the Task is removed; its exit code
\* is sent if it has one, else the status that waitpid(pid, WNOHANG) gives
loop_get_exit_code_query(l, j) ==
    IF ~l.tasks[j].present THEN [l EXCEPT !.st = "panicked"]
    ELSE IF l.tasks[j].exit_code # -1
    THEN [l EXCEPT !.tasks[j] = NoTask,
                   !.fut[j] = [st |-> "replied", code |-> l.tasks[j].exit_code]]
    ELSE IF l.child[j].st = "zombie"
    THEN [l EXCEPT !.tasks[j] = NoTask,
                   !.child[j].st = "reaped",
                   !.fut[j] = [st |-> "replied", code |-> ExitCodeOf(l.child[j].ws)]]
    ELSE [l EXCEPT !.tasks[j] = NoTask, !.st = "panicked"]

\* handle_one_request with a query on the socket
handle_one_request(l) ==
    LET query == Head(l.sock)
        rest == [l EXCEPT !.sock = Tail(@)]
    IN  IF query.q = "Spawn" THEN process_spawn_query(rest, query.j)
        ELSE loop_get_exit_code_query(rest, query.j)

\* entry: the setup is done and the zygote enters the loop of its mode
loop_entry ==
    /\ lp.st = "none"
    /\ lp' = [NoLoop EXCEPT !.st = "run"]
    /\ UNCHANGED <<cfgVars, used, sbVars, wireVars, execVars, tickVars, groupVars, selectVars, allocVars, startVars, ipcVars, stdioVars, pollVars, diagVars, enterVars, fdsVars, abortVars, lockVars>>

\* one turn of the loop.  run_loop_pidfd blocks in the recv of a query.
\* run_loop_legacy blocks in select on the socket and, if pidfd_supported(),
\* on the signal descriptor; it reaps if the signal descriptor is in the
\* result, then handles a request if the socket is
loop_turn ==
    /\ lp.st = "run"
    /\ LET sig_ready == ~pidfd /\ SigFdWatched /\ lp.sig
           sock_ready == lp.sock # <<>>
           reaped == IF sig_ready THEN [reap_children(lp) EXCEPT !.sig = FALSE] ELSE lp
       IN  /\ sig_ready \/ sock_ready
           /\ lp' = IF sock_ready /\ reaped.st = "run" THEN handle_one_request(reaped)
                    ELSE reaped
    /\ UNCHANGED <<cfgVars, used, sbVars, wireVars, execVars, tickVars, groupVars, selectVars, allocVars, startVars, ipcVars, stdioVars, pollVars, diagVars, enterVars, fdsVars, abortVars, lockVars>>

\* the caller spawns job j: the Spawn query reaches the socket
loop_spawn(j) ==
    /\ lp.st = "run"
    /\ lp.child[j].st = "none" /\ lp.fut[j].st = "none"
    /\ \A i \in 1..Len(lp.sock) : lp.sock[i].j # j
    /\ lp' = [lp EXCEPT !.sock = Append(@, [q |-> "Spawn", j |-> j])]
    /\ UNCHANGED <<cfgVars, used, sbVars, wireVars, execVars, tickVars, groupVars, selectVars, allocVars, startVars, ipcVars, stdioVars, pollVars, diagVars, enterVars, fdsVars, abortVars, lockVars>>

\* the child of job j ends; SIGCHLD, which the zygote blocks, becomes pending
loop_job_exit(j, ws) ==
    /\ lp.st = "run"
    /\ lp.child[j].st = "running"
    /\ lp' = [lp EXCEPT !.child[j] = [st |-> "zombie", ws |-> ws], !.sig = TRUE]
    /\ UNCHANGED <<cfgVars, used, sbVars, wireVars, execVars, tickVars, groupVars, selectVars, allocVars, startVars, ipcVars, stdioVars, pollVars, diagVars, enterVars, fdsVars, abortVars, lockVars>>

\* the event descriptor of the wait future of job j: the pidfd of an ended
\* child, or the notifier pipe with a byte in it or with its write end closed
EventReady(j) ==
    IF pidfd THEN lp.child[j].st \in {"zombie", "reaped"}
    ELSE lp.tasks[j].notify > 0 \/ lp.st # "run"

\* the wait future of job j finds its descriptor readable and asks for the
\* exit code; with the zygote gone it resolves by itself
loop_poll(j) ==
    /\ lp.st # "none"
    /\ lp.fut[j].st = "pending"
    /\ EventReady(j)
    /\ lp' = IF lp.st = "run"
             THEN [lp EXCEPT !.sock = Append(@, [q |-> "GetExitCode", j |-> j]),
                             !.fut[j].st = "asked"]
             ELSE [lp EXCEPT !.fut[j].st = "replied"]
    /\ UNCHANGED <<cfgVars, used, sbVars, wireVars, execVars, tickVars, groupVars, selectVars, allocVars, startVars, ipcVars, stdioVars, pollVars, diagVars, enterVars, fdsVars, abortVars, lockVars>>

\* the sandbox is killed: the zygote and its children die
loop_killed ==
    /\ lp.st = "run"
    /\ lp' = [lp EXCEPT !.st = "dead", !.sock = <<>>]
    /\ UNCHANGED <<cfgVars, used, sbVars, wireVars, execVars, tickVars, groupVars, selectVars, allocVars, startVars, ipcVars, stdioVars, pollVars, diagVars, enterVars, fdsVars, abortVars, lockVars>>

\* the sandbox is dropped
loop_drop ==
    /\ lp.st \in {"dead", "panicked"}
    /\ lp' = Unmade
    /\ UNCHANGED <<cfgVars, used, sbVars, wireVars, execVars, tickVars, groupVars, selectVars, allocVars, startVars, ipcVars, stdioVars, pollVars, diagVars, enterVars, fdsVars, abortVars, lockVars>>

NextLoop ==
    \/ loop_entry
    \/ loop_turn
    \/ \E j \in Jobs : loop_spawn(j)
    \/ \E j \in Jobs, k \in ExitStatuses : loop_job_exit(j, [kind |-> "exited", v |-> k])
    \/ \E j \in Jobs, sg \in Signals : loop_job_exit(j, [kind |-> "signaled", v |-> sg])
    \/ \E j \in Jobs : loop_poll(j)
    \/ loop_killed
    \/ loop_drop

\* The zygote is a process of its own and the wait future is polled by the
\* runtime: a turn of the loop that can be taken is taken, and a future whose
\* descriptor is readable is polled.
FairLoop ==
    /\ Init /\ [][NextLoop]_vars
    /\ WF_vars(loop_turn)
    /\ \A j \in Jobs : WF_vars(loop_poll(j))

(***************************************************************************)
(* do_exec after execvpe has returned, and print_diagnostics               *)
(***************************************************************************)
ENOENT == 2
EACCES == 13
EXIT_FAILURE == 1

\* a path is absolute or relative and has components
PathNames == {"a", "b"}
Root == [abs |-> TRUE, comps |-> <<>>]
ImagePaths == {[abs |-> a, comps |-> c] : a \in BOOLEAN,
               c \in UNION {[1..n -> PathNames] : n \in 1..MaxDepth}}
Prefix(p, k) == [p EXCEPT !.comps = SubSeq(@, 1, k)]
\* the directories: the root, and some ancestors of the image, each with its
\* own ancestors; a relative path is looked up in the working directory
FileSystems(p) == {{Root} \cup {Prefix(p, i) : i \in 1..k} : k \in 0..(Len(p.comps) - 1)}

\* PathBuf::pop: truncates to the parent; false and no change without one
pop(p) == [p EXCEPT !.comps = IF @ = <<>> THEN @ ELSE SubSeq(@, 1, Len(@) - 1)]

\* fs::metadata(path) is Ok and is_dir(); the empty path names no file
is_dir(fs, p) == p \in fs

\* execvpe has returned with errno err.  ENOENT: the message, then
\* print_diagnostics.  Any other: the message, then err_exit, which panics in
\* a process that is not pid 1; the panic hook of the zygote exits
diag_execve(p, fs, err) ==
    /\ dg.st = "none"
    /\ dg' = IF err = ENOENT
             THEN [st |-> "search", path |-> p, fs |-> fs, cur |-> p,
                   out |-> <<"not found">>, code |-> -1]
             ELSE [st |-> "exited", path |-> p, fs |-> fs, cur |-> p,
                   out |-> <<"couldn't execute", "PANIC">>, code |-> EXIT_FAILURE]
    /\ UNCHANGED <<cfgVars, used, sbVars, wireVars, execVars, tickVars, groupVars, selectVars, allocVars, startVars, ipcVars, stdioVars, pollVars, loopVars, enterVars, fdsVars, abortVars, lockVars>>

\* one turn of the loop of print_diagnostics: the path is the existing
\* prefix if it is a directory, else its last component is popped
diag_search ==
    /\ dg.st = "search"
    /\ dg' = IF is_dir(dg.fs, dg.cur)
             THEN [dg EXCEPT !.st = "list", !.out = Append(@, "following path exists")]
             ELSE [dg EXCEPT !.cur = pop(@)]
    /\ UNCHANGED <<cfgVars, used, sbVars, wireVars, execVars, tickVars, groupVars, selectVars, allocVars, startVars, ipcVars, stdioVars, pollVars, loopVars, enterVars, fdsVars, abortVars, lockVars>>

\* the items of the prefix are listed, or the failure to list it is
\* written; print_diagnostics returns and do_exec calls exit(108)
diag_list(ok) ==
    /\ dg.st = "list"
    /\ dg' = [dg EXCEPT !.st = "exited", !.code = 108,
                        !.out = Append(@, IF ok THEN "items" ELSE "couldn't list path")]
    /\ UNCHANGED <<cfgVars, used, sbVars, wireVars, execVars, tickVars, groupVars, selectVars, allocVars, startVars, ipcVars, stdioVars, pollVars, loopVars, enterVars, fdsVars, abortVars, lockVars>>

\* the zygote reaps the child
diag_reap ==
    /\ dg.st = "exited"
    /\ dg' = Unmade
    /\ UNCHANGED <<cfgVars, used, sbVars, wireVars, execVars, tickVars, groupVars, selectVars, allocVars, startVars, ipcVars, stdioVars, pollVars, loopVars, enterVars, fdsVars, abortVars, lockVars>>

NextDiag ==
    \/ \E p \in ImagePaths, err \in {ENOENT, EACCES} :
          \E fs \in FileSystems(p) : diag_execve(p, fs, err)
    \/ diag_search
    \/ \E ok \in BOOLEAN : diag_list(ok)
    \/ diag_reap

\* the child is scheduled
FairDiag ==
    /\ Init
    /\ [][NextDiag]_vars
    /\ WF_vars(diag_search)
    /\ WF_vars(\E ok \in BOOLEAN : diag_list(ok))

(***************************************************************************)
(* PrlimitEnter::join                                                      *)
(***************************************************************************)
\* u64 subtraction: a build with overflow checks panics when the result
\* would be negative, a build without them wraps
sub_u64(a, b, checked) ==
    IF a >= b THEN a - b
    ELSE IF checked THEN -1 ELSE (a - b) % (U64Max + 1)

\* (cpu_usage - 1) / 1_000_000_000 + 1; -1 stands for the panic
cpu_usage_limit(c, checked) ==
    LET d == sub_u64(c, 1, checked)
    IN  IF d = -1 THEN -1 ELSE ((d \div NanosPerSec) + 1) % (U64Max + 1)

\* join: RLIMIT_DATA, RLIMIT_NPROC, RLIMIT_CPU in this order; the first
\* setrlimit that fails ends it with Err
enter_join(mem, pids, c, checked, oks) ==
    /\ en.st = "none"
    /\ LET lim == cpu_usage_limit(c, checked)
           set(i) == \A k \in 1..i : oks[k]
       IN  en' = [st |-> IF ~(oks[1] /\ oks[2]) THEN "Err"
                         ELSE IF lim = -1 THEN "panicked"
                         ELSE IF oks[3] THEN "Ok" ELSE "Err",
                  cpu_usage |-> c,
                  data |-> IF set(1) THEN mem ELSE -1,
                  nproc |-> IF set(2) THEN pids ELSE -1,
                  cpu |-> IF set(3) /\ lim # -1 THEN lim ELSE -1]
    /\ UNCHANGED <<cfgVars, used, sbVars, wireVars, execVars, tickVars, groupVars, selectVars, allocVars, startVars, ipcVars, stdioVars, pollVars, loopVars, diagVars, fdsVars, abortVars, lockVars>>

\* the child has execed or exited
enter_gone ==
    /\ en.st # "none"
    /\ en' = Unmade
    /\ UNCHANGED <<cfgVars, used, sbVars, wireVars, execVars, tickVars, groupVars, selectVars, allocVars, startVars, ipcVars, stdioVars, pollVars, loopVars, diagVars, fdsVars, abortVars, lockVars>>

NextEnter ==
    \/ \E mem \in {0, U64Max}, pids \in 1..PidsMax, c \in 0..U64Max, checked \in BOOLEAN :
          \E oks \in [1..3 -> BOOLEAN] : enter_join(mem, pids, c, checked, oks)
    \/ enter_gone

SpecEnter == Init /\ [][NextEnter]_vars

(***************************************************************************)
(* The descriptors of a spawn request: spawn, LinuxSandbox::spawn_job and  *)
(* the recv_fds of process_spawn_query                                     *)
(***************************************************************************)
\* Iterator::flatten over the Option<Fd>s: the Nones are left out
RECURSIVE flatten(_)
flatten(fds) ==
    IF fds = <<>> THEN <<>>
    ELSE (IF Head(fds) = NoDescriptor THEN <<>> ELSE <<Head(fds)>>) \o flatten(Tail(fds))

\* the descriptors spawn_job sends after the query
spawn_job_fds(stdin, stdout, stderr) == flatten(<<stdin, stdout, stderr>>)

\* the number of descriptors process_spawn_query asks recv_fds for
child_fds_count(extra_fds) == 3 + extra_fds

\* spawn and spawn_job up to send_fds, with extra descriptors to inherit:
\* the streams are prepared, the query is sent, then the descriptors
fds_spawn(stdin, stdout, stderr, extra) ==
    /\ sf.st = "none"
    /\ LET i == handle_input_io(stdin, "none")
           o == handle_output_io(stdout, "none")
           e == handle_output_io(stderr, "none")
           fds == spawn_job_fds(i.child, o.child, e.child)
       IN  sf' = [st |-> "sent",
                  spec |-> <<stdin.kind, stdout.kind, stderr.kind>>,
                  extra |-> extra,
                  fds |-> fds,
                  q |-> Socket_send_fds(<<>>, fds),
                  res |-> "none"]
    /\ UNCHANGED <<cfgVars, used, sbVars, wireVars, execVars, tickVars, groupVars, selectVars, allocVars, startVars, ipcVars, stdioVars, pollVars, loopVars, diagVars, enterVars, abortVars, lockVars>>

\* process_spawn_query: recv_fds(3 + options.extra_fds.len()).unwrap().  It
\* blocks while nothing is in flight: the caller then waits in recv for the
\* startup info.  An Err panics the zygote
fds_recv ==
    /\ sf.st = "sent"
    /\ LET got == Socket_recv_fds(sf.q, FALSE, child_fds_count(sf.extra))
       IN  sf' = [sf EXCEPT !.st = CASE got.r = "block" -> "blocked"
                                     [] got.r = "Ok" -> "received"
                                     [] OTHER -> "panicked",
                            !.q = got.q,
                            !.res = got.r]
    /\ UNCHANGED <<cfgVars, used, sbVars, wireVars, execVars, tickVars, groupVars, selectVars, allocVars, startVars, ipcVars, stdioVars, pollVars, loopVars, diagVars, enterVars, abortVars, lockVars>>

\* the sandbox is dropped
fds_drop ==
    /\ sf.st \in {"blocked", "received", "panicked"}
    /\ sf' = Unmade
    /\ UNCHANGED <<cfgVars, used, sbVars, wireVars, execVars, tickVars, groupVars, selectVars, allocVars, startVars, ipcVars, stdioVars, pollVars, loopVars, diagVars, enterVars, abortVars, lockVars>>

NextFds ==
    \/ \E stdin \in InputSpecifications, stdout, stderr \in OutputSpecifications :
          \E extra \in 0..MaxExtra : fds_spawn(stdin, stdout, stderr, extra)
    \/ fds_recv
    \/ fds_drop

SpecFds == Init /\ [][NextFds]_vars

(***************************************************************************)
(* A spawn_job that fails after its query was sent, and the request that   *)
(* follows it on the same socket                                           *)
(***************************************************************************)
NoAbortCall == [op |-> "none", x |-> 0, st |-> "none", res |-> "none"]
NoAte == [by |-> 0, of |-> 0]
NoAbort == [st |-> "live", q |-> <<>>, zst |-> "idle", zx |-> 0, xid |-> 0,
            call |-> NoAbortCall, ate |-> NoAte]

\* the sandbox exists and its zygote serves
abort_create ==
    /\ ab.st = "none"
    /\ ab' = NoAbort
    /\ UNCHANGED <<cfgVars, used, sbVars, wireVars, execVars, tickVars, groupVars, selectVars, allocVars, startVars, ipcVars, stdioVars, pollVars, loopVars, diagVars, enterVars, fdsVars, lockVars>>

\* spawn_job: send(&q).ok(), then send_fds(&fds)?.  sent: the sendmsg of the
\* descriptors succeeds.  If it fails the call returns the error at once,
\* else the caller waits for the startup info
abort_spawn_job(sent) ==
    /\ ab.st = "live"
    /\ ab.call.st # "wait"
    /\ ab.xid < MaxExch
    /\ LET x == ab.xid + 1
           query == <<Hdr("Query", x), Body("Query", "Spawn", x)>>
       IN  ab' = [ab EXCEPT
                     !.xid = x,
                     !.q = IF ab.zst = "dead" THEN @
                           ELSE IF sent THEN @ \o query \o <<FdPkt(x)>> ELSE @ \o query,
                     !.call = IF sent /\ ab.zst # "dead"
                              THEN [op |-> "spawn", x |-> x, st |-> "wait", res |-> "none"]
                              ELSE [op |-> "spawn", x |-> x, st |-> "done", res |-> "Err"]]
    /\ UNCHANGED <<cfgVars, used, sbVars, wireVars, execVars, tickVars, groupVars, selectVars, allocVars, startVars, ipcVars, stdioVars, pollVars, loopVars, diagVars, enterVars, fdsVars, lockVars>>

\* get_exit_code or the rlimit driver's resource_usage: the query is sent
\* and the caller waits for the reply
abort_query(op) ==
    /\ ab.st = "live"
    /\ ab.call.st # "wait"
    /\ ab.xid < MaxExch
    /\ LET x == ab.xid + 1
       IN  ab' = [ab EXCEPT
                     !.xid = x,
                     !.q = IF ab.zst = "dead" THEN @
                           ELSE @ \o <<Hdr("Query", x), Body("Query", op, x)>>,
                     !.call = [op |-> op, x |-> x, st |-> "wait", res |-> "none"]]
    /\ UNCHANGED <<cfgVars, used, sbVars, wireVars, execVars, tickVars, groupVars, selectVars, allocVars, startVars, ipcVars, stdioVars, pollVars, loopVars, diagVars, enterVars, fdsVars, lockVars>>

\* handle_one_request: recv of a Query, whose assertion on the type id
\* panics on a datagram that is not the header of one; a Spawn query goes on
\* to recv_fds, the other queries are answered
abort_handle_one_request ==
    /\ ab.st = "live"
    /\ ab.zst = "idle"
    /\ ab.q # <<>>
    /\ LET h == Head(ab.q)
       IN  IF h.id # typeid("Query")
           THEN ab' = [ab EXCEPT !.zst = "dead", !.q = <<>>, !.zx = 0]
           ELSE LET query == ab.q[2]
                IN  IF query.v = "Spawn"
                    THEN ab' = [ab EXCEPT !.zst = "recv_fds", !.zx = h.x,
                                          !.q = Tail(Tail(@))]
                    ELSE ab' = [ab EXCEPT
                                   !.q = Tail(Tail(@)),
                                   !.call = IF @.st = "wait" /\ @.x = h.x
                                            THEN [@ EXCEPT !.st = "done", !.res = "Ok"]
                                            ELSE @]
    /\ UNCHANGED <<cfgVars, used, sbVars, wireVars, execVars, tickVars, groupVars, selectVars, allocVars, startVars, ipcVars, stdioVars, pollVars, loopVars, diagVars, enterVars, fdsVars, lockVars>>

\* process_spawn_query: recv_fds(..).unwrap() takes the next datagram; one
\* without descriptors is an Ancillary error and the unwrap panics.  With
\* the descriptors the job is started and the reply is sent
abort_recv_fds ==
    /\ ab.st = "live"
    /\ ab.zst = "recv_fds"
    /\ ab.q # <<>>
    /\ LET d == Head(ab.q)
       IN  IF d.kind = "fds"
           THEN ab' = [ab EXCEPT
                          !.zst = "idle", !.zx = 0, !.q = Tail(@),
                          !.ate = IF d.x # ab.zx THEN [by |-> ab.zx, of |-> d.x] ELSE @,
                          !.call = IF @.st = "wait" /\ @.x = ab.zx
                                   THEN [@ EXCEPT !.st = "done", !.res = "Ok"]
                                   ELSE @]
           ELSE ab' = [ab EXCEPT !.zst = "dead", !.zx = 0, !.q = <<>>,
                                 !.ate = [by |-> ab.zx, of |-> d.x]]
    /\ UNCHANGED <<cfgVars, used, sbVars, wireVars, execVars, tickVars, groupVars, selectVars, allocVars, startVars, ipcVars, stdioVars, pollVars, loopVars, diagVars, enterVars, fdsVars, lockVars>>

\* the zygote is dead: the caller's recv finds end of file
abort_eof ==
    /\ ab.st = "live"
    /\ ab.zst = "dead"
    /\ ab.call.st = "wait"
    /\ ab' = [ab EXCEPT !.call = [@ EXCEPT !.st = "done",
                                           !.res = recv(ReplyType(ab.call.op), Eof).r]]
    /\ UNCHANGED <<cfgVars, used, sbVars, wireVars, execVars, tickVars, groupVars, selectVars, allocVars, startVars, ipcVars, stdioVars, pollVars, loopVars, diagVars, enterVars, fdsVars, lockVars>>

\* the sandbox is dropped
abort_drop ==
    /\ ab.st = "live"
    /\ ab.call.st # "wait"
    /\ ab' = Unmade
    /\ UNCHANGED <<cfgVars, used, sbVars, wireVars, execVars, tickVars, groupVars, selectVars, allocVars, startVars, ipcVars, stdioVars, pollVars, loopVars, diagVars, enterVars, fdsVars, lockVars>>

NextAbort ==
    \/ abort_create
    \/ \E sent \in BOOLEAN : abort_spawn_job(sent)
    \/ \E op \in {"GetExitCode", "GetResourceUsage"} : abort_query(op)
    \/ abort_handle_one_request
    \/ abort_recv_fds
    \/ abort_eof
    \/ abort_drop

SpecAbort == Init /\ [][NextAbort]_vars

(***************************************************************************)
(* The mutexes: the group map of the rlimit driver, the zygote cell and    *)
(* the zygote socket of a sandbox, and the calls that lock them            *)
(***************************************************************************)
\* the watchdog task, next to the threads of the callers
Watchdog == NThreads + 1
Procs == Threads \cup {Watchdog}

\* no call in progress, and a call at its first statement
NoOp == [op |-> "none", i |-> 0, replied |-> FALSE]
Call(op) == [op |-> op, i |-> 1, replied |-> FALSE]
\* a sandbox after its construction: the group is registered, the zygote
\* serves, the watchdog sleeps; 0 is a free mutex
NoLock == [st |-> "live", gm |-> 0, zc |-> 0, zs |-> 0, cell |-> "Some",
           zyg |-> "serving", from |-> 0, c2z |-> <<>>, el |-> 0, wd |-> "sleep",
           p |-> [q \in Procs |-> NoOp]]

\* spawn_job: the guard of zygote_sock is held from the send of the query,
\* over the send of the descriptors, to the end of the recv
spawn_job_locks ==
    <<"lock_sock", "send_hdr", "send_body", "send_fds", "recv", "unlock_sock">>
\* get_exit_code, and a spawn_job whose stdio is all Null: no descriptor is
\* sent
get_exit_code_locks == <<"lock_sock", "send_hdr", "send_body", "recv", "unlock_sock">>
\* Prlimit::resource_usage: groups.lock(), zygote.lock(), drop(groups), the
\* exchange, and the guard of the zygote dropped at the return
resource_usage_locks ==
    <<"lock_groups", "lock_zygote", "unlock_groups", "send_hdr", "send_body", "recv",
      "unlock_zygote">>
\* the kill of the watchdog and of kill(): zygote.lock(), take()
take_locks == <<"lock_zygote", "take", "unlock_zygote">>
\* create_group, register_group_details, delete_group: groups.lock() for one
\* statement
group_locks == <<"lock_groups", "unlock_groups">>
\* a faulty drop that deletes the group while it holds the zygote cell
drop_locks_nested ==
    <<"lock_zygote", "take", "lock_groups", "unlock_groups", "unlock_zygote">>
\* Drop: kill(), then the group is deleted
drop_locks == take_locks \o group_locks

LockOps == {"spawn", "spawn_null", "exit", "usage", "kill", "group", "drop"}
StepsOf(op) ==
    CASE op = "spawn" -> spawn_job_locks
      [] op \in {"spawn_null", "exit"} -> get_exit_code_locks
      [] op = "usage" -> resource_usage_locks
      [] op = "kill" -> take_locks
      [] op = "group" -> group_locks
      [] OTHER -> drop_locks

\* the statement a call is at
At(q) == IF lk.p[q].op = "none" THEN "none" ELSE StepsOf(lk.p[q].op)[lk.p[q].i]
\* the mutexes a thread holds
Holds(q) ==
    (IF lk.gm = q THEN {"groups"} ELSE {}) \cup (IF lk.zc = q THEN {"zygote"} ELSE {})
        \cup (IF lk.zs = q THEN {"sock"} ELSE {})

\* the sandbox is created
lock_create ==
    /\ lk.st = "none"
    /\ lk' = NoLock
    /\ UNCHANGED <<cfgVars, used, sbVars, wireVars, execVars, tickVars, groupVars, selectVars, allocVars, startVars, ipcVars, stdioVars, pollVars, loopVars, diagVars, enterVars, fdsVars, abortVars>>

\* a thread enters a call.  The rlimit driver alone asks the zygote for the
\* usage; "group" is a create_group or delete_group of another sandbox of
\* the backend; the drop runs when no other call holds a reference
lock_begin(t, op) ==
    /\ lk.st = "live"
    /\ lk.p[t].op = "none"
    /\ op = "usage" => driver = "prlimit"
    /\ op = "drop" => \A u \in Threads : lk.p[u].op = "none"
    /\ lk' = [lk EXCEPT !.p[t] = Call(op),
                        !.st = IF op = "drop" THEN "dropping" ELSE @]
    /\ UNCHANGED <<cfgVars, used, sbVars, wireVars, execVars, tickVars, groupVars, selectVars, allocVars, startVars, ipcVars, stdioVars, pollVars, loopVars, diagVars, enterVars, fdsVars, abortVars>>

\* the datagram a send statement writes
Datagram(what) == CASE what = "send_hdr" -> "hdr" [] what = "send_body" -> "body"
                    [] OTHER -> "fds"

\* the next statement of the call of q, together with the unlock that
\* follows it.  A resource_usage that finds the cell empty returns
\* SandboxGone and drops both guards.  The watchdog decides at the end of its
\* read: it kills if the read failed or the wall time is over the limit
lock_step(q) ==
    /\ lk.st # "none"
    /\ lk.p[q].op # "none"
    /\ LET me == lk.p[q]
           steps == StepsOf(me.op)
           what == steps[me.i]
           then == IF me.i < Len(steps) THEN steps[me.i + 1] ELSE "none"
           both == then \in {"unlock_groups", "unlock_zygote", "unlock_sock"}
           did == {what} \cup (IF both THEN {then} ELSE {})
           at == IF both THEN me.i + 1 ELSE me.i
           gone == what = "lock_zygote" /\ me.op = "usage" /\ lk.cell = "None"
           last == at = Len(steps) \/ gone
           failed == gone \/ (what = "recv" /\ ~me.replied)
           kills == q = Watchdog /\ me.op = "usage" /\ last
                        /\ (failed \/ was_real_tle(lk.el))
       IN  /\ what = "lock_groups" => lk.gm = 0
           /\ what = "lock_zygote" => lk.zc = 0
           /\ what = "lock_sock" => lk.zs = 0
           /\ what = "recv" => (me.replied \/ lk.zyg = "dead")
           /\ lk' = [lk EXCEPT
                        !.p[q] = IF kills THEN Call("kill")
                                 ELSE IF last THEN NoOp
                                 ELSE [me EXCEPT !.i = at + 1],
                        !.gm = IF "unlock_groups" \in did \/ (gone /\ @ = q) THEN 0
                               ELSE IF what = "lock_groups" THEN q
                               ELSE @,
                        !.zc = IF "unlock_zygote" \in did \/ gone THEN 0
                               ELSE IF what = "lock_zygote" THEN q
                               ELSE @,
                        !.zs = IF "unlock_sock" \in did THEN 0
                               ELSE IF what = "lock_sock" THEN q
                               ELSE @,
                        !.cell = IF what = "take" THEN "None" ELSE @,
                        !.zyg = IF what = "take" THEN "dead" ELSE @,
                        !.c2z = IF what = "take" THEN <<>>
                                ELSE IF what \in {"send_hdr", "send_body", "send_fds"}
                                        /\ lk.zyg # "dead"
                                     THEN Append(@, <<q, Datagram(what)>>)
                                ELSE @,
                        !.st = IF me.op = "drop" /\ last THEN "dropped" ELSE @,
                        !.wd = IF q # Watchdog \/ ~last THEN @
                               ELSE IF kills THEN "kill"
                               ELSE IF me.op = "usage" THEN "sleep"
                               ELSE "exited"]
    /\ UNCHANGED <<cfgVars, used, sbVars, wireVars, execVars, tickVars, groupVars, selectVars, allocVars, startVars, ipcVars, stdioVars, pollVars, loopVars, diagVars, enterVars, fdsVars, abortVars>>

\* the zygote reads the next datagram of its socket.  It reads a header,
\* then the body of the query; a Spawn makes it wait for the descriptors,
\* any other query is answered, and the reply to a Spawn follows the
\* descriptors.  A datagram that is not the expected one ends the zygote:
\* the length or the type id of a header that is none do not match, a body
\* that is none does not parse, descriptors that are none panic in recv_fds
zygote_read ==
    /\ lk.st # "none"
    /\ lk.zyg # "dead"
    /\ lk.c2z # <<>>
    /\ LET d == Head(lk.c2z)
           q == d[1]
           ok == \/ lk.zyg = "serving" /\ d[2] = "hdr"
                 \/ lk.zyg \in {"body", "recv_fds"} /\ lk.from = q
                        /\ d[2] = (IF lk.zyg = "body" THEN "body" ELSE "fds")
           spawns == lk.p[q].op \in {"spawn", "spawn_null"}
           answers == ok /\ (lk.zyg = "recv_fds" \/ (lk.zyg = "body" /\ ~spawns))
       IN  lk' = [lk EXCEPT
                     !.c2z = IF ok THEN Tail(@) ELSE <<>>,
                     !.zyg = IF ~ok THEN "dead"
                             ELSE IF @ = "serving" THEN "body"
                             ELSE IF @ = "body" /\ spawns THEN "recv_fds"
                             ELSE "serving",
                     !.from = IF ok /\ ~answers THEN q ELSE 0,
                     !.p[q].replied = IF answers THEN TRUE ELSE @]
    /\ UNCHANGED <<cfgVars, used, sbVars, wireVars, execVars, tickVars, groupVars, selectVars, allocVars, startVars, ipcVars, stdioVars, pollVars, loopVars, diagVars, enterVars, fdsVars, abortVars>>

\* a period of the watchdog ends: it leaves if the sandbox was dropped, else
\* it reads the usage, through the zygote on the rlimit driver and from the
\* files of the group on the cgroup driver, where it decides at once
lock_watchdog_tick ==
    /\ lk.st # "none"
    /\ lk.wd = "sleep"
    /\ LET el == IF lk.el > RealLimit THEN lk.el ELSE lk.el + 1
           op == IF lk.st = "dropped" THEN "none"
                 ELSE IF driver = "prlimit" THEN "usage"
                 ELSE IF was_real_tle(el) THEN "kill"
                 ELSE "none"
       IN  lk' = [lk EXCEPT
                     !.el = el,
                     !.wd = IF lk.st = "dropped" THEN "exited"
                            ELSE IF op = "none" THEN "sleep"
                            ELSE op,
                     !.p[Watchdog] = IF op = "none" THEN NoOp ELSE Call(op)]
    /\ UNCHANGED <<cfgVars, used, sbVars, wireVars, execVars, tickVars, groupVars, selectVars, allocVars, startVars, ipcVars, stdioVars, pollVars, loopVars, diagVars, enterVars, fdsVars, abortVars>>

\* the sandbox and its watchdog are gone
lock_gone ==
    /\ lk.st = "dropped"
    /\ lk.wd = "exited"
    /\ lk' = Unmade
    /\ UNCHANGED <<cfgVars, used, sbVars, wireVars, execVars, tickVars, groupVars, selectVars, allocVars, startVars, ipcVars, stdioVars, pollVars, loopVars, diagVars, enterVars, fdsVars, abortVars>>

NextLock ==
    \/ lock_create
    \/ \E t \in Threads, op \in LockOps : lock_begin(t, op)
    \/ \E q \in Procs : lock_step(q)
    \/ zygote_read
    \/ lock_watchdog_tick
    \/ lock_gone

\* the parts that do not matter to the mutexes are fixed
InitLocks == Init /\ ~rootless /\ pidfd /\ keepCgroups

\* the threads, the zygote and the watchdog are scheduled, and a thread that
\* waits for a mutex gets it in the end: the mutexes are fair
FairLock ==
    /\ InitLocks
    /\ [][NextLock]_vars
    /\ \A q \in Procs : SF_lockVars(lock_step(q))
    /\ WF_lockVars(zygote_read)
    /\ WF_lockVars(lock_watchdog_tick)

(***************************************************************************)
(* Specification of the sandbox lifecycle of a whole backend               *)
(***************************************************************************)
Lifecycle(s) ==
    \/ \E flagsOk \in BOOLEAN : create_uid(s, flagsOk)
    \/ \E started \in BOOLEAN : create_zygote(s, started)
    \/ \E ok \in BOOLEAN : kill(s, ok)
    \/ drop_reclaim_uid(s)
    \/ \E ok \in BOOLEAN : drop_kill(s, ok)
    \/ \E removed \in BOOLEAN : drop_cgroup(s, removed)

NextUid == \E s \in Sandboxes : Lifecycle(s)

SpecUid == Init /\ [][NextUid]_vars

(***************************************************************************)
(* Specification of one sandbox in detail.  Sandboxes share nothing but    *)
(* the uid allocator, so the jobs, the watchdog and the clock are followed *)
(* for one of them.                                                        *)
(***************************************************************************)
Detailed == CHOOSE s \in Sandboxes : TRUE

\* the sandbox, its jobs and its watchdog
NextWatchdog ==
    \/ Lifecycle(Detailed)
    \/ \E j \in Jobs, nfds \in 0..StdioFds : spawn_job(Detailed, j, nfds)
    \/ spawn_job_released(Detailed)
    \/ \E j \in Jobs, k \in ExitStatuses :
           job_exit(Detailed, j, [kind |-> "exited", v |-> k])
    \/ \E j \in Jobs, sg \in Signals :
           job_exit(Detailed, j, [kind |-> "signaled", v |-> sg])
    \/ \E j \in Jobs : drop_future(Detailed, j)
    \/ check_tle(Detailed)
    \/ watchdog_heartbeat(Detailed)
    \/ watchdog_check(Detailed)
    \/ burn(Detailed)

\* and the calls that ask the zygote or the driver
Next ==
    \/ NextWatchdog
    \/ \E j \in Jobs : get_exit_code_send(Detailed, j)
    \/ \E j \in Jobs, replied \in BOOLEAN : get_exit_code_recv(Detailed, j, replied)
    \/ resource_usage(Detailed)

\* the detailed sandbox runs under root, where it takes a uid from the allocator
InitRoot == Init /\ ~rootless

Spec == InitRoot /\ [][Next]_vars

\* The async runtime runs the watchdog task: its sleep of one period ends and
\* the blocking closure it spawned completes.  The exit-code and usage
\* queries, which the watchdog does not read, are left out.
FairSpec ==
    /\ InitRoot /\ [][NextWatchdog]_vars
    /\ WF_vars(watchdog_heartbeat(Detailed))
    /\ WF_vars(watchdog_check(Detailed))

(***************************************************************************)
(* Specification of the zygote socket of one sandbox: threads that spawn,  *)
(* ask for exit codes and for the resource usage, and the zygote's loop.   *)
(***************************************************************************)
NextWire ==
    \/ \E t \in Threads, op \in {"spawn", "usage"} : call_begin(t, op, 0)
    \/ \E t \in Threads, p \in 1..MaxExch : call_begin(t, "exit", p)
    \/ zygote_recv
    \/ zygote_spawn_step
    \/ \E t \in Threads : call_recv(t)
    \/ \E t \in Threads : call_recv_fds(t)

SpecWire == Init /\ [][NextWire]_vars

(***************************************************************************)
(* C1: allocate never returns a uid that is still outstanding: two         *)
(* sandboxes that hold a uid (allocated and not yet released by the drop)  *)
(* never hold the same one, and every held uid is in the in-use set.       *)
(***************************************************************************)
C1_UidUnique ==
    \A s, t \in Sandboxes :
        /\ uid[s] # 0 => uid[s] \in used
        /\ (s # t /\ uid[s] # 0 /\ uid[t] # 0) => uid[s] # uid[t]

\* two sandboxes are live at the same time, each with a uid from the allocator
C1_Witness ==
    \E s, t \in Sandboxes :
        s # t /\ uid[s] # 0 /\ uid[t] # 0 /\ pc[s] = "live" /\ pc[t] = "live"

(***************************************************************************)
(* C2: the wait future of a job that ended by itself, completed while the  *)
(* zygote is alive, resolves to ExitCode(k) for exit status k and to       *)
(* ExitCode(1000 + s) for signal s.                                        *)
(***************************************************************************)
Completed(jb) == jb.fut \in {"resolved", "panicked"}

C2_ExitCodeReported ==
    \A s \in Sandboxes, j \in Jobs :
        (zygAlive[s] /\ Completed(job[s][j]))
            => /\ job[s][j].fut = "resolved"
               /\ job[s][j].res = [tag |-> "code", v |-> ExitCodeOf(job[s][j].ws)]

(***************************************************************************)
(* C3: after the watchdog killed the sandbox for CPU time, the wait future *)
(* of a job that was killed with it resolves with KILLED or with a signal  *)
(* death, and check_cpu_tle() returns true.                                *)
(***************************************************************************)
\* the exit code of the job was asked for and the zygote never answered
AskedOfDeadZygote(jb) == Completed(jb) /\ jb.task.present

C3_CpuTleKill ==
    \A s \in Sandboxes, j \in Jobs :
        (wd[s] = "killed" /\ cpuUsage[s] > CpuLimit /\ AskedOfDeadZygote(job[s][j]))
            => /\ job[s][j].fut = "resolved"
               /\ job[s][j].res.tag = "KILLED" \/ job[s][j].res.v >= SIGNALLED
               /\ check_tle_value(s, "cpu")

(***************************************************************************)
(* C4: if the wall-clock time of a running sandbox exceeds real_time_limit *)
(* while its CPU usage is within the limit, then eventually the sandbox is *)
(* killed (the cell is None, no process is alive) and check_real_tle()     *)
(* returns true, unless before that the CPU usage exceeds its limit, the   *)
(* owner kills or drops the sandbox, or the zygote dies by itself.         *)
(***************************************************************************)
NoProcess(s) == ~zygAlive[s] /\ \A j \in Jobs : job[s][j].st \in {"none", "gone"}

Running(s) == pc[s] = "live" /\ zygote[s] = "Some" /\ zygAlive[s]

WallExceeded(s) == Running(s) /\ elapsed[s] > RealLimit /\ cpuUsage[s] <= CpuLimit

RealTleKilled(s) ==
    zygote[s] = "None" /\ NoProcess(s) /\ wd[s] = "killed" /\ check_tle_value(s, "wall")

\* the owner emptied the cell or left, or the zygote died with the cell full
Interrupted(s) ==
    \/ pc[s] # "live"
    \/ zygote[s] = "None" /\ wd[s] # "killed"
    \/ zygote[s] = "Some" /\ ~zygAlive[s]

C5_OomSetsNoFlag ==
    \A s \in Sandboxes, j \in Jobs :
        (Completed(job[s][j]) /\ ~job[s][j].task.present
            /\ job[s][j].ws.kind = "signaled" /\ wd[s] \in {"sleep", "check"})
            => /\ job[s][j].fut = "resolved"
               /\ job[s][j].res = [tag |-> "code", v |-> SIGNALLED + job[s][j].ws.v]
               /\ ~check_tle_value(s, "cpu")
               /\ ~check_tle_value(s, "wall")

(***************************************************************************)
(* C6: the zygote cell of a sandbox goes from Some to None only: once it   *)
(* is None it stays None, and a cell that holds a zygote is never reset.   *)
(***************************************************************************)
C6_CellMonotonic ==
    [][\A s \in Sandboxes :
          /\ zygote[s] = "None" => zygote'[s] = "None"
          /\ zygote[s] = "Some" => zygote'[s] \in {"Some", "None"}]_vars

\* the cell was taken by the watchdog and by the drop: one of them found None
C6_Witness ==
    \E s \in Sandboxes : zygote[s] = "None" /\ wd[s] = "killed" /\ pc[s] = "dropped"

(***************************************************************************)
(* C7: a spawn or resource_usage call made when the zygote cell is None    *)
(* returns an error; it does not succeed, panic or block.                  *)
(***************************************************************************)
C7_GoneCallsFail ==
    [][\A s \in Sandboxes :
          (zygote[s] = "None" /\ ret'[s] # ret[s]
              /\ ret'[s].op \in {"spawn", "resource_usage"})
              => ret'[s].res \in {"SandboxGone", "err"}]_vars

(***************************************************************************)
(* C8: a wait future that asks for the exit code when the zygote is gone   *)
(* resolves with ExitCode::KILLED and does not panic.                      *)
(***************************************************************************)
C8_GoneIsKilled ==
    \A s \in Sandboxes, j \in Jobs :
        (~zygAlive[s] /\ AskedOfDeadZygote(job[s][j]))
            => job[s][j].fut = "resolved" /\ job[s][j].res.tag = "KILLED"

C10_DropNeverPanics ==
    \A s \in Sandboxes : pc[s] # "panicked"

(***************************************************************************)
(* C11: exchanges on the zygote socket never interleave: a thread inside   *)
(* an exchange holds the mutex, and every packet a caller reads belongs to *)
(* the exchange it started.                                                *)
(***************************************************************************)
C11_OwnReply ==
    \A t \in Threads :
        /\ th[t].pcw \in {"sent", "info"} => mtx = t
        /\ ~th[t].stray

(***************************************************************************)
(* C12: the zygote never receives GetExitCode for a pid whose Task it has  *)
(* not stored: the Task is stored before JobStartupInfo is sent,           *)
(* JobStartupInfo before the exit-notifier descriptor, and every pid a     *)
(* caller holds or asks about has a stored Task.                           *)
(***************************************************************************)
\* the steps of the current process_spawn_query that are done
StepsDone == {spawn_order[i] : i \in 1..(zyg.step - 1)}

C12_TaskBeforeQuery ==
    /\ zyg.alive
    /\ "info" \in StepsDone => "store" \in StepsDone
    /\ "fd" \in StepsDone => "info" \in StepsDone
    /\ \A i \in 1..Len(z2c) :
           (z2c[i].kind = "body" /\ z2c[i].of = "JobStartupInfo") => z2c[i].v \in ztasks
    /\ handed \subseteq ztasks
    /\ \A i \in 1..Len(c2z) : c2z[i].op = "exit" => c2z[i].pid \in ztasks
    /\ \A t \in Threads : th[t].pcw = "info" => th[t].pid \in ztasks

\* the zygote has answered a GetExitCode for a pid it had stored
C12_Witness ==
    /\ zyg.alive
    /\ \E i \in 1..Len(z2c) : z2c[i].id = typeid("i64")
    /\ \E t \in Threads : th[t].op = "exit" /\ th[t].pid \notin ztasks

\* C13: a child that runs the program has joined the resource group of its
\* sandbox, and a child whose join failed has terminated.
C13_JoinBeforeExec ==
    /\ cx.pcx \in {"cloexec", "ids", "wait", "stdio", "extra", "seccomp", "execve", "execed"}
        => cx.joined
    /\ (cx.pcx # "none" /\ cx.pcx # "join" /\ ~cx.joined) => cx.pcx = "exited"

C13_Witness == cx.pcx = "exited" /\ ~cx.joined /\ cx.kind = "prlimit"

C16_FailClosed ==
    wt.failed => (wt.st = "killed" /\ ~wt.zyg /\ wt.ev # <<>>)

\* C17: a second create_group with the id and the limits of a group that
\* exists succeeds and leaves the group as it was, with every driver.
C17_CreateIdempotent ==
    LET c == gd.last
    IN  (c.op = "create" /\ c.before[c.id].present /\ c.before[c.id].pids = c.pids
         /\ (gd.kind = "prlimit" \/ gd.writable))
            => (c.res = "Ok" /\ gd.groups = c.before)

\* C18: with the rlimit driver create_group fails with
\* PidsLimitEnforcementImpossible exactly when pids_max > 1 and the settings
\* are rootless, and then no record is added; otherwise it succeeds and the
\* group has a record.
C18_PidsLimit ==
    LET c == gd.last
    IN  (gd.kind = "prlimit" /\ c.op = "create") =>
            IF c.pids > 1 /\ gd.rootless
            THEN c.res = "PidsLimitEnforcementImpossible" /\ gd.groups = c.before
            ELSE c.res = "Ok" /\ gd.groups[c.id].present

\* the candidates of one kind, in the order the selection is meant to try them
Expansion(kind, rl) ==
    CASE kind = "CgroupV1" -> <<Raw("cgroup_v1", FALSE)>>
      [] kind = "CgroupV2" -> <<Raw("cgroup_v2", FALSE)>>
      [] kind = "Prlimit" -> <<Raw("prlimit", ~rl)>>
      [] kind = "AutoDangerous" ->
            <<Raw("cgroup_v1", FALSE), Raw("cgroup_v2", FALSE), Raw("prlimit", ~rl)>>
      [] OTHER -> <<Raw("cgroup_v1", FALSE), Raw("cgroup_v2", FALSE)>>

RECURSIVE Candidates(_, _)
Candidates(kinds, rl) ==
    IF kinds = <<>> THEN <<>> ELSE Expansion(Head(kinds), rl) \o Candidates(Tail(kinds), rl)

\* C19: the kinds of the settings are expanded in order, the candidates are
\* probed in that order, the first whose smoke check succeeds is returned and
\* no later one is probed; if none succeeds the result is SelectDriverImpl
\* with one attempt per candidate, in probe order.
C19_SelectionOrder ==
    sel.st = "done" =>
        LET cands == Candidates(sel.kinds, sel.rootless)
            works == {i \in 1..Len(cands) : smoke_check(cands[i], sel.env) = "Ok"}
        IN  IF works = {}
            THEN /\ sel.res = "SelectDriverImpl"
                 /\ sel.probed = cands
                 /\ Len(sel.attempts) = Len(cands)
                 /\ \A i \in 1..Len(cands) : sel.attempts[i].config = cands[i]
            ELSE LET first == CHOOSE i \in works : \A j \in works : i <= j
                 IN  /\ sel.res = "Ok"
                     /\ sel.driver = cands[first]
                     /\ sel.probed = SubSeq(cands, 1, first)
                     /\ Len(sel.attempts) = first - 1

C19_Witness ==
    /\ sel.st = "done" /\ sel.res = "Ok"
    /\ sel.kinds = <<"AutoDangerous", "CgroupV1">>
    /\ sel.driver.drv = "cgroup_v2"
    /\ Len(sel.probed) = 2

\* C20: a backend with rootless settings and the rlimit driver alone is made
\* with the rlimit driver selected, and a sandbox for one process can be
\* created on it.
C20_RootlessPrlimit ==
    (sel.st = "done" /\ sel.rootless /\ sel.kinds = <<"Prlimit">>) =>
        /\ sel.res = "Ok"
        /\ sel.driver.drv = "prlimit"
        /\ sel.sandbox \in {"none", "Ok"}

\* C21: allocate returns the smallest id of [low, high) that is not in use
\* and adds it to the set; when every id of the range is in use, or the
\* range is empty, it returns None, the set is unchanged and the creation of
\* the sandbox fails with UidExhausted.
C21_AllocateSmallest ==
    LET c == ua.last
        free == {u \in ua.low..(ua.high - 1) : u \notin c.before}
    IN  (ua.st = "made" /\ c.op = "allocate") =>
            IF free = {}
            THEN c.res = "UidExhausted" /\ ua.used = c.before
            ELSE /\ c.res = "Ok"
                 /\ c.uid \in free
                 /\ \A v \in free : c.uid <= v
                 /\ ua.used = c.before \cup {c.uid}

\* the range is not empty, it is full, and one more sandbox is asked for
C21_Witness ==
    /\ ua.st = "made"
    /\ ua.last.op = "allocate" /\ ua.last.res = "UidExhausted"
    /\ ua.low < ua.high /\ ua.used # {}

\* the step has been done, and it was done before the other one if that one
\* has been done
Done(step) == \E i \in 1..Len(sz.log) : sz.log[i] = step
Before(x, y) ==
    \A j \in 1..Len(sz.log) : sz.log[j] = y => \E i \in 1..(j - 1) : sz.log[i] = x

\* C22: when start_zygote has returned to the caller, the maps of the zygote
\* are written, its mounts are done and it has entered the chroot: what it
\* has left to do is to serve; the pid returned is that of the process that
\* runs the message loop.
C22_ReturnAfterSetup ==
    sz.a = "returned" =>
        /\ \A x \in {"setgroups", "uid_map", "gid_map", "chmod", "chown", "bind", "proc",
                     "chroot"} : Done(x) /\ Before(x, "returned")
        /\ sz.c >= Len(setup_order)
        /\ sz.ret.res = "Ok" /\ sz.ret.pid = "zygote"

C22_Witness == sz.a = "returned" /\ sz.cst = "run"

\* C29: setgroups, uid_map and gid_map are written before the zygote does
\* chmod or chown on the isolation root, a bind mount, the /proc mount or
\* chroot; bind mounts, the /proc mount and chroot come in that order; the
\* zygote serves only after chroot, and a zygote whose setup failed at a step
\* has ended without serving.
C29_SetupOrder ==
    sz.a # "none" =>
        /\ \A x \in {"setgroups", "uid_map", "gid_map"} :
              \A y \in {"chmod", "chown", "bind", "proc", "chroot"} : Before(x, y)
        /\ Before("bind", "proc") /\ Before("proc", "chroot") /\ Before("chroot", "serve")
        /\ sz.cst = "serving" => Done("chroot")
        /\ (sz.cst = "exited" /\ sz.c <= Len(setup_order)) => ~Done("serve")

\* the setup failed at chroot, after the mounts
C29_Witness == sz.cst = "exited" /\ Done("proc") /\ ~Done("chroot")

\* C23: on a socket pair the matching recv and recv_fds(n) calls of the peer
\* return the values and the descriptors that were sent, in the order they
\* were sent; send_fds of n descriptors adds ceil(n/8) datagrams of at most 8
\* descriptors each, none for n = 0
C23_RoundTrip ==
    ip.st = "open" =>
        /\ (ip.last.matched /\ ip.last.op = "recv") =>
               (ip.last.r = "Ok" /\ ip.last.v = ip.last.want.v)
        /\ (ip.last.matched /\ ip.last.op = "recv_fds") =>
               (ip.last.r = "Ok" /\ ip.last.fds = ip.last.want.fds
                /\ Len(ip.last.fds) = ip.last.n)
        /\ ip.sent.op = "send_fds" =>
               /\ Len(ip.sent.added) = (ip.sent.n + FD_CHUNK_SIZE - 1) \div FD_CHUNK_SIZE
               /\ \A i \in 1..Len(ip.sent.added) :
                      Len(ip.sent.added[i].fds) \in 1..FD_CHUNK_SIZE

\* a recv_fds that matched a send_fds of more than one datagram, the last of
\* the calls made on the pair
C23_Witness ==
    /\ ip.st = "open"
    /\ ip.last.matched
    /\ ip.last.op = "recv_fds"
    /\ ip.last.n > FD_CHUNK_SIZE
    /\ ip.last.fds = ip.last.want.fds
    /\ ip.ncalls = MaxCalls
    /\ ip.nfds = ip.last.n

\* C24: every failure of the socket calls is an IpcError returned to the
\* caller and never a panic: a value that cannot be serialized, a closed peer
\* met by recv or recv_fds, and a datagram whose descriptors are not what
\* recv_fds expects
IpcErrors == {"Serde", "Syscall", "Ancillary"}

C24_TaggedErrors ==
    ip.st = "open" =>
        /\ ip.sent.r \in {"none", "Ok"} \cup IpcErrors
        /\ ip.last.eof => ip.last.r \in IpcErrors
        /\ ip.last.op = "recv_fds" => ip.last.r \in {"Ok"} \cup IpcErrors

\* C25: for each stdio specification spawn makes the pair of the table: Null
\* gives the caller nothing and the child nothing; Empty gives the child
\* /dev/null opened read-only; Ignore gives the child /dev/null opened
\* write-only; Pipe gives the caller one end and the child the other (the
\* caller writes to stdin and reads from stdout and stderr); Handle gives the
\* child the passed descriptor; Buffer gives the caller the memfd and the child
\* a duplicate of it
StdioTable(spec, input, stream) ==
    CASE spec.kind = "Null" -> stream.caller = NoDescriptor /\ stream.child = NoDescriptor
      [] spec.kind = "Empty" ->
             /\ stream.caller = NoDescriptor
             /\ stream.child.file = "/dev/null" /\ stream.child.flags = "O_RDONLY"
      [] spec.kind = "Ignore" ->
             /\ stream.caller = NoDescriptor
             /\ stream.child.file = "/dev/null" /\ stream.child.flags = "O_WRONLY"
      [] spec.kind = "Pipe" ->
             /\ stream.caller.file = "pipe" /\ stream.child.file = "pipe"
             /\ stream.caller.flags = (IF input THEN "O_WRONLY" ELSE "O_RDONLY")
             /\ stream.child.flags = (IF input THEN "O_RDONLY" ELSE "O_WRONLY")
      [] spec.kind = "Handle" ->
             /\ stream.caller = NoDescriptor
             /\ stream.child.file = "handle" /\ stream.child.h = spec.h
      [] OTHER ->
             /\ stream.caller.file = "memfd" /\ ~stream.caller.dup
             /\ stream.child.file = "memfd" /\ stream.child.dup

C25_StdioTable ==
    (io.st = "done" /\ io.res = "Ok") =>
        /\ StdioTable(io.spec.stdin, TRUE, io.stdin)
        /\ StdioTable(io.spec.stdout, FALSE, io.stdout)
        /\ StdioTable(io.spec.stderr, FALSE, io.stderr)

\* C26: in a period of the watchdog, CPU usage above cpu_time_limit makes it
\* send CpuTle and take the zygote; otherwise elapsed time above
\* real_time_limit makes it send RealTle and take the zygote; otherwise it
\* sends nothing and takes nothing, a usage equal to the limit included.  With
\* both limits exceeded only CpuTle is sent, and the event is sent before the
\* zygote is taken
C26_TickDecision ==
    LET t == wt.tick
    IN  t.done =>
            /\ t.usage > wt.lim => t.steps = <<"CpuTle", "take">>
            /\ (t.usage <= wt.lim /\ t.el > RealLimit) => t.steps = <<"RealTle", "take">>
            /\ (t.usage <= wt.lim /\ t.el <= RealLimit) => (t.steps = <<>> /\ wt.zyg)
            /\ t.steps # <<>> => (~wt.zyg /\ wt.ev = <<t.steps[1]>>)

\* a period in which both limits were exceeded
C26_Witness ==
    /\ wt.tick.done
    /\ wt.tick.usage > wt.lim
    /\ wt.tick.el > RealLimit
    /\ wt.st = "killed"

\* C27: the watchdog task of a sandbox comes to an end.  Once the sandbox is
\* dropped, the next period of the watchdog ends it, with no read of the usage
\* and nothing killed; once the watchdog has killed the sandbox it has ended,
\* and a watchdog that has ended does not run again
WatchdogRuns(s) == wd[s] \in {"sleep", "check"}
WatchdogEnded(s) == wd[s] \in {"exited", "killed"}
SandboxDropped(s) == pc[s] \in {"dropped", "panicked"}

C27_WatchdogTerminates ==
    /\ \A s \in Sandboxes : WatchdogRuns(s) ~> WatchdogEnded(s)
    /\ [][\A s \in Sandboxes :
              /\ (SandboxDropped(s) /\ wd[s] = "sleep" /\ wd'[s] # "sleep") =>
                     (wd'[s] = "exited" /\ zygote' = zygote /\ zygAlive' = zygAlive
                      /\ chan' = chan)
              /\ WatchdogEnded(s) => wd'[s] = wd[s]]_vars

\* the watchdog of a dropped sandbox ended at its period, with the limits kept
C27_Witness ==
    \E s \in Sandboxes :
        /\ wd[s] = "exited" /\ pc[s] = "dropped"
        /\ elapsed[s] <= RealLimit /\ cpuUsage[s] <= CpuLimit

C30_LegacyReaps ==
    \A j \in Jobs :
        (~pidfd /\ lp.st = "run" /\ lp.child[j].st = "zombie")
            ~> \/ lp.st # "run"
               \/ lp.tasks[j].exit_code # -1 /\ lp.tasks[j].notify = 1
               \/ lp.fut[j].st = "replied"

(***************************************************************************)
(* C31: when execvpe fails with ENOENT the child writes its diagnostics    *)
(* and ends with exit code 108, for every image path, absolute or          *)
(* relative, with or without an existing ancestor directory; with any      *)
(* other error it ends with a failure code; it never goes on as the zygote *)
(***************************************************************************)
C31_ExecFailureExits ==
    /\ (dg.st = "search") ~> (dg.st = "exited" /\ dg.code = 108)
    /\ [](dg.st = "exited" => /\ dg.code # 0
                              /\ dg.code = 108 <=> dg.out[1] = "not found")
    /\ [](dg.st \in {"none", "search", "list", "exited"})

(***************************************************************************)
(* C32: the enter handle of the rlimit driver sets RLIMIT_CPU to the CPU   *)
(* limit rounded up to whole seconds, for every limit including 0 and the  *)
(* exact multiples of a second, and the computation neither overflows nor  *)
(* underflows                                                              *)
(***************************************************************************)
Ceil(c) == CHOOSE k \in 0..U64Max : k * NanosPerSec >= c /\ (k = 0 \/ (k - 1) * NanosPerSec < c)

C32_CpuRoundedUp ==
    /\ en.st # "panicked"
    /\ en.st = "Ok" => en.cpu = Ceil(en.cpu_usage)

(***************************************************************************)
(* C33: a create that fails leaves the in-use set of the uid allocator as  *)
(* it was before the call: an unknown shared-item flag fails with          *)
(* InvalidSharedItemFlag before any uid is allocated, and when the zygote  *)
(* could not be started the uid that was allocated is given back           *)
(***************************************************************************)
C33_FailedCreateKeepsPool ==
    [][\A s \in Sandboxes :
          (pc[s] # "failed" /\ pc'[s] = "failed") =>
              /\ pc[s] = "none" =>
                    /\ used' = used
                    /\ ret'[s].res \in {"InvalidSharedItemFlag", "UidExhausted"}
              /\ (pc[s] = "creating" /\ uid[s] # 0) => uid[s] \notin used']_vars

(***************************************************************************)
(* C34: a uid is free in the allocator only while no process of a sandbox  *)
(* that was given it is alive: as long as the zygote or a job of a sandbox *)
(* with a uid of its own is alive, the sandbox holds its uid and the uid   *)
(* is in use, so no sandbox created meanwhile can be given it              *)
(***************************************************************************)
C34_UidHeldWhileAlive ==
    \A s \in Sandboxes :
        (~rootless /\ ~NoProcess(s)) => (uid[s] # 0 /\ uid[s] \in used)

(***************************************************************************)
(* C35: for every request kind the reply of the zygote has the type the    *)
(* caller's recv expects (Spawn: JobStartupInfo, then one descriptor;      *)
(* GetExitCode: an integer of the same width on both sides;                *)
(* GetResourceUsage: ResourceUsageInformation), so the type-tag check of   *)
(* recv never fails on the reply to the caller's own request               *)
(***************************************************************************)
C35_ReplyTypes ==
    \A t \in Threads :
        /\ (th[t].pcw = "sent" /\ z2c # <<>> /\ Head(z2c).kind = "hdr"
            /\ Head(z2c).x = th[t].x)
              => Head(z2c).id = typeid(ReplyType(th[t].op))
        /\ th[t].pcw = "panicked" => th[t].stray

(***************************************************************************)
(* C36: for every spawn request, with every combination of stdio           *)
(* specifications, Null included, and every number of extra descriptors,   *)
(* the caller sends as many descriptors after the query as the zygote      *)
(* waits for, 3 + the number of extra descriptors, so the recv_fds of the  *)
(* zygote completes: it neither fails nor blocks                           *)
(***************************************************************************)
C36_DescriptorCount ==
    /\ sf.st \notin {"blocked", "panicked"}
    /\ sf.st \in {"sent", "received"} => Len(sf.fds) = child_fds_count(sf.extra)

(***************************************************************************)
(* C37: start_zygote always returns in the caller: if the helper or the    *)
(* zygote fails or dies at any point of the handshake, the caller's wait   *)
(* for the pid of the zygote ends and an error is reported                 *)
(***************************************************************************)
C37_CallerReturns ==
    (sz.a = "wait") ~> (sz.a = "returned" /\ sz.ret.res \in {"Ok", "Err"})

(***************************************************************************)
(* C38: if a spawn fails on the caller's side after its query was sent,    *)
(* the zygote is not left in the middle of that exchange: the datagrams of *)
(* the next request on the sandbox are never consumed as a part of the     *)
(* failed spawn                                                            *)
(***************************************************************************)
C38_FailedSpawnLeavesNoExchange ==
    ab.st = "live" =>
        /\ ab.ate = NoAte
        /\ ~(ab.zst = "recv_fds" /\ ab.q = <<>> /\ ab.call.x = ab.zx
             /\ ab.call.st = "done" /\ ab.call.res = "Err")

(***************************************************************************)
(* C39: check_cpu_tle() returns true only if the CPU usage of the sandbox  *)
(* exceeded cpu_time_limit, and check_real_tle() only if the sandbox was   *)
(* still alive when its wall time exceeded real_time_limit: the watchdog   *)
(* sends RealTle only for a sandbox whose zygote is alive, so after a      *)
(* kill() of a sandbox within its limits both flags stay false, with       *)
(* every resource driver                                                   *)
(***************************************************************************)
C39_FlagsMeanLimits ==
    /\ [](\A s \in Sandboxes :
             (pc[s] = "live" /\ check_tle_value(s, "cpu")) => cpuUsage[s] > CpuLimit)
    /\ [][\A s \in Sandboxes :
             (Len(chan'[s]) = Len(chan[s]) + 1 /\ chan'[s][Len(chan'[s])] = "RealTle")
                 => zygAlive[s]]_vars

(***************************************************************************)
(* C40: no interleaving of spawn, exit-code lookup, resource_usage, kill,  *)
(* watchdog tick and drop deadlocks: no thread asks for the mutex of the   *)
(* group map while it holds a mutex of the zygote, and every thread and    *)
(* the watchdog are again and again out of every call, so each call that   *)
(* was begun returns; a thread that waits for a reply with a mutex of the  *)
(* zygote held is released once the zygote is dead                         *)
(***************************************************************************)
C40_NoDeadlock ==
    /\ [](lk.st # "none" =>
             \A q \in Procs : At(q) = "lock_groups" => Holds(q) = {})
    /\ \A q \in Procs : []<>(lk.st = "none" \/ lk.p[q].op = "none")

\* a thread waits for the zygote cell with the group map held, while the
\* watchdog holds the cell and is about to take the zygote; another thread
\* holds the socket and waits for the reply of a zygote that waits for
\* descriptors
C40_Witness ==
    /\ lk.st # "none"
    /\ \E t \in Threads :
          /\ At(t) = "lock_zygote" /\ Holds(t) = {"groups"}
          /\ lk.zc = Watchdog /\ At(Watchdog) = "take"
    /\ \E u \in Threads : At(u) = "recv" /\ Holds(u) = {"sock"} /\ lk.zyg = "recv_fds"
====
